---- MODULE Spec2Model ----
(***************************************************************************)
(* A model of the agent registry, the pricing agent's tiered execution    *)
(* and cache, and the router orchestrator's conversation context of       *)
(* bedrock-chat-ui.                                                        *)
(*                                                                         *)
(* Text is a sequence of one-character strings, so that lower-casing,     *)
(* trimming and substring matching are computed, not assumed.  Scores are *)
(* exact rationals [n, d] (the code computes them in binary floating      *)
(* point; the model does not represent rounding).                         *)
(***************************************************************************)
EXTENDS Integers, Sequences, FiniteSets, TLC

\* ------------------------------------------------------------------ text

UpperToLower ==
  ("A" :> "a") @@ ("B" :> "b") @@ ("C" :> "c") @@ ("D" :> "d") @@ ("E" :> "e") @@
  ("F" :> "f") @@ ("G" :> "g") @@ ("H" :> "h") @@ ("I" :> "i") @@ ("J" :> "j") @@
  ("K" :> "k") @@ ("L" :> "l") @@ ("M" :> "m") @@ ("N" :> "n") @@ ("O" :> "o") @@
  ("P" :> "p") @@ ("Q" :> "q") @@ ("R" :> "r") @@ ("S" :> "s") @@ ("T" :> "t") @@
  ("U" :> "u") @@ ("V" :> "v") @@ ("W" :> "w") @@ ("X" :> "x") @@ ("Y" :> "y") @@
  ("Z" :> "z")

\* str.lower()
Lower(s) ==
  SubSeq([i \in 1..Len(s) |-> IF s[i] \in DOMAIN UpperToLower THEN UpperToLower[s[i]] ELSE s[i]],
         1, Len(s))

Whitespace == {" ", "\t", "\n", "\r"}

\* str.strip()
Strip(s) ==
  LET keep == {i \in 1..Len(s) : s[i] \notin Whitespace}
      Min(S) == CHOOSE x \in S : \A y \in S : x <= y
      Max(S) == CHOOSE x \in S : \A y \in S : x >= y
  IN  IF keep = {} THEN <<>> ELSE SubSeq(s, Min(keep), Max(keep))

\* a fault: the substring test of "in" done as a test at the start of s only
StartsWith(sub, s) ==
  /\ Len(sub) <= Len(s)
  /\ \A j \in 1..Len(sub) : s[j] = sub[j]

\* the operator "sub in s" on strings
Contains(sub, s) ==
  \E i \in 0..(Len(s) - Len(sub)) : \A j \in 1..Len(sub) : s[i + j] = sub[j]

\* any(word in s for word in words)
ContainsAny(words, s) == \E i \in 1..Len(words) : Contains(words[i], s)

\* ------------------------------------------------------------- rationals

RECURSIVE GCD(_, _)
GCD(a, b) == IF b = 0 THEN a ELSE GCD(b, a % b)

Abs(x) == IF x < 0 THEN -x ELSE x

\* n/d in lowest terms, d > 0
R(n, d) ==
  LET g == GCD(Abs(n), Abs(d))
      s == IF d < 0 THEN -1 ELSE 1
  IN  [n |-> s * (n \div g), d |-> s * (d \div g)]

RZero == R(0, 1)
ROne == R(1, 1)
RAdd(x, y) == R(x.n * y.d + y.n * x.d, x.d * y.d)
RMul(x, y) == R(x.n * y.n, x.d * y.d)
RLess(x, y) == x.n * y.d < y.n * x.d
RLeq(x, y) == x.n * y.d <= y.n * x.d
RMin(x, y) == IF RLess(y, x) THEN y ELSE x
RMax(x, y) == IF RLess(x, y) THEN y ELSE x

PricingCostAnalysisKeywords ==
  <<
    <<"c","o","s","t">>,
    <<"p","r","i","c","e">>,
    <<"p","r","i","c","i","n","g">>,
    <<"b","u","d","g","e","t">>,
    <<"e","s","t","i","m","a","t","e">>,
    <<"e","x","p","e","n","s","i","v","e">>,
    <<"c","h","e","a","p">>,
    <<"s","a","v","i","n","g","s">>,
    <<"b","i","l","l">>,
    <<"b","i","l","l","i","n","g">>,
    <<"l","a","m","b","d","a">>,
    <<"e","c","2">>,
    <<"r","d","s">>,
    <<"s","3">>,
    <<"d","y","n","a","m","o","d","b">>,
    <<"c","l","o","u","d","f","r","o","n","t">>,
    <<"a","p","i"," ","g","a","t","e","w","a","y">>,
    <<"e","c","s">>,
    <<"f","a","r","g","a","t","e">>,
    <<"m","o","n","t","h","l","y">>,
    <<"h","o","u","r","l","y">>,
    <<"u","s","a","g","e">>,
    <<"c","h","a","r","g","e","s">>,
    <<"f","e","e","s">>,
    <<"r","a","t","e","s">>,
    <<"c","a","l","c","u","l","a","t","o","r">>,
    <<"a","w","s"," ","c","a","l","c","u","l","a","t","o","r">>,
    <<"i","n","s","t","a","n","c","e","s">>,
    <<"s","t","o","r","a","g","e">>,
    <<"r","e","q","u","e","s","t","s">>,
    <<"b","a","n","d","w","i","d","t","h">>,
    <<"d","a","t","a"," ","t","r","a","n","s","f","e","r">>,
    <<"c","o","m","p","u","t","e">>,
    <<"m","u","c","h">>,
    <<"s","p","e","n","d">>,
    <<"s","p","e","n","d","i","n","g">>,
    <<"d","o","l","l","a","r","s">>,
    <<"u","s","d">>,
    <<"$">>
  >>

PricingCostAnalysisPhrases ==
  <<
    <<"h","o","w"," ","m","u","c","h"," ","d","o","e","s">>,
    <<"w","h","a","t"," ","i","s"," ","t","h","e"," ","c","o","s","t">>,
    <<"c","o","s","t"," ","a","n","a","l","y","s","i","s">>,
    <<"p","r","i","c","i","n","g"," ","f","o","r">>,
    <<"b","u","d","g","e","t"," ","f","o","r">>,
    <<"o","p","t","i","m","i","z","e"," ","c","o","s","t","s">>,
    <<"c","o","s","t"," ","c","o","m","p","a","r","i","s","o","n">>,
    <<"h","o","w"," ","m","u","c","h"," ","w","o","u","l","d">>,
    <<"w","h","a","t"," ","w","o","u","l","d"," ","i","t"," ","c","o","s","t">>,
    <<"c","o","s","t"," ","o","f">>,
    <<"p","r","i","c","e"," ","o","f">>,
    <<"c","o","s","t"," ","t","o"," ","r","u","n">>,
    <<"m","o","n","t","h","l","y"," ","c","o","s","t">>,
    <<"p","r","i","c","i","n","g"," ","i","n">>,
    <<"e","s","t","i","m","a","t","e"," ","f","o","r">>,
    <<"b","u","d","g","e","t"," ","e","s","t","i","m","a","t","e">>,
    <<"c","o","s","t"," ","b","r","e","a","k","d","o","w","n">>,
    <<"p","r","i","c","i","n","g"," ","b","r","e","a","k","d","o","w","n">>,
    <<"c","o","s","t"," ","p","e","r">>,
    <<"p","r","i","c","e"," ","p","e","r">>
  >>

PricingOptimizationKeywords ==
  <<
    <<"o","p","t","i","m","i","z","e">>,
    <<"r","e","d","u","c","e">>,
    <<"s","a","v","e">>,
    <<"c","h","e","a","p","e","r">>,
    <<"a","l","t","e","r","n","a","t","i","v","e">>,
    <<"e","f","f","i","c","i","e","n","c","y">>,
    <<"m","i","n","i","m","i","z","e">>,
    <<"l","o","w","e","r">>,
    <<"d","e","c","r","e","a","s","e">>,
    <<"c","u","t">>,
    <<"t","r","i","m">>,
    <<"b","e","s","t"," ","p","r","i","c","e">>,
    <<"m","o","s","t"," ","c","o","s","t"," ","e","f","f","e","c","t","i","v","e">>,
    <<"e","c","o","n","o","m","i","c","a","l">>
  >>

PricingOptimizationPhrases ==
  <<
    <<"o","p","t","i","m","i","z","e"," ","c","o","s","t","s">>,
    <<"r","e","d","u","c","e"," ","s","p","e","n","d","i","n","g">>,
    <<"s","a","v","e"," ","m","o","n","e","y">>,
    <<"c","o","s","t"," ","o","p","t","i","m","i","z","a","t","i","o","n">>,
    <<"c","h","e","a","p","e","r"," ","a","l","t","e","r","n","a","t","i","v","e">>,
    <<"l","o","w","e","r"," ","c","o","s","t","s">>,
    <<"m","i","n","i","m","i","z","e"," ","c","o","s","t","s">>,
    <<"r","e","d","u","c","e"," ","c","o","s","t","s">>,
    <<"c","o","s","t"," ","e","f","f","e","c","t","i","v","e">>,
    <<"m","o","s","t"," ","e","c","o","n","o","m","i","c","a","l">>
  >>

PricingArchitectureCostingKeywords ==
  <<
    <<"a","r","c","h","i","t","e","c","t","u","r","e">>,
    <<"w","o","r","k","l","o","a","d">>,
    <<"d","e","p","l","o","y","m","e","n","t">>,
    <<"i","n","f","r","a","s","t","r","u","c","t","u","r","e">>,
    <<"s","e","t","u","p">>,
    <<"s","o","l","u","t","i","o","n">>,
    <<"a","p","p","l","i","c","a","t","i","o","n">>,
    <<"s","y","s","t","e","m">>,
    <<"s","t","a","c","k">>,
    <<"e","n","v","i","r","o","n","m","e","n","t">>,
    <<"t","i","e","r">>,
    <<"m","u","l","t","i","-","t","i","e","r">>
  >>

PricingArchitectureCostingPhrases ==
  <<
    <<"a","r","c","h","i","t","e","c","t","u","r","e"," ","c","o","s","t">>,
    <<"w","o","r","k","l","o","a","d"," ","p","r","i","c","i","n","g">>,
    <<"d","e","p","l","o","y","m","e","n","t"," ","c","o","s","t">>,
    <<"i","n","f","r","a","s","t","r","u","c","t","u","r","e"," ","c","o","s","t">>,
    <<"a","p","p","l","i","c","a","t","i","o","n"," ","c","o","s","t">>,
    <<"s","y","s","t","e","m"," ","c","o","s","t">>,
    <<"t","o","t","a","l"," ","c","o","s","t"," ","o","f"," ","o","w","n","e","r","s","h","i","p">>,
    <<"t","c","o">>
  >>
\* ---------------------------------------------------------- capabilities

\* AgentCapability(name, keywords, phrases, priority, confidence_threshold)
AgentCapability(name, keywords, phrases, priority, confidence_threshold) ==
  [name |-> name, keywords |-> keywords, phrases |-> phrases,
   priority |-> priority, confidence_threshold |-> confidence_threshold]

\* AWSPricingAgent.get_capabilities
PricingCapabilities ==
  << AgentCapability("aws_cost_analysis", PricingCostAnalysisKeywords,
                     PricingCostAnalysisPhrases, 8, R(3, 10)),
     AgentCapability("aws_optimization", PricingOptimizationKeywords,
                     PricingOptimizationPhrases, 7, R(3, 10)),
     AgentCapability("aws_architecture_costing", PricingArchitectureCostingKeywords,
                     PricingArchitectureCostingPhrases, 6, R(3, 10)) >>

\* An agent with the single capability keywords ["security"], phrases
\* ["security review"], priority 9, confidence_threshold 0.7 (the first
\* capability of SecurityAgent cut to one keyword and one phrase).
SecurityReviewCapabilities ==
  << AgentCapability("security_analysis",
                     << <<"s","e","c","u","r","i","t","y">> >>,
                     << <<"s","e","c","u","r","i","t","y"," ","r","e","v","i","e","w">> >>,
                     9, R(7, 10)) >>

\* An agent made by the factory from a configuration: one capability of four
\* keywords, no phrase, priority 9, confidence_threshold 0.7.
AuditCapabilities ==
  << AgentCapability("compliance_check",
                     << <<"a","u","d","i","t">>,
                        <<"c","o","m","p","l","i","a","n","c","e">>,
                        <<"s","t","a","n","d","a","r","d","s">>,
                        <<"r","e","g","u","l","a","t","i","o","n">> >>,
                     << >>, 9, R(7, 10)) >>

\* An agent made by the factory from a configuration whose one capability
\* has keywords ["setup"], no phrase, the default priority 5 and
\* confidence_threshold 0.0, the low end of the range the CLI asks for.
HelpDeskCapabilities ==
  << AgentCapability("general_help", << <<"s","e","t","u","p">> >>, << >>, 5, R(0, 10)) >>

NoClass == "none"
Classes == {"AWSPricingAgent", "SecurityReviewAgent", "AuditAgent", "HelpDeskAgent"}

\* cls().get_capabilities() of each agent class of the model
ClassCapabilities(cls) ==
  CASE cls = "AWSPricingAgent" -> PricingCapabilities
    [] cls = "SecurityReviewAgent" -> SecurityReviewCapabilities
    [] cls = "AuditAgent" -> AuditCapabilities
    [] cls = "HelpDeskAgent" -> HelpDeskCapabilities
    [] OTHER -> << >>

\* ---------------------------------------------------------------- scoring

\* sum(1 for w in words if w in query_lower)
Matches(words, query_lower) ==
  Cardinality({i \in 1..Len(words) : Contains(words[i], query_lower)})

\* keyword_score = 0.4 + min(matches / len(keywords), 1.0) * 0.4
KeywordScore(keyword_matches, n_keywords) ==
  IF n_keywords > 0 /\ keyword_matches > 0
  THEN RAdd(R(4, 10), RMul(RMin(R(keyword_matches, n_keywords), ROne), R(4, 10)))
  ELSE RZero

\* phrase_score = min(matches * 0.5, 0.9)
PhraseScore(phrase_matches, n_phrases) ==
  IF n_phrases > 0 /\ phrase_matches > 0
  THEN RMin(RMul(R(phrase_matches, 1), R(5, 10)), R(9, 10))
  ELSE RZero

\* the capability's score left as weighted, whatever matched
ScoreUnfloored(score, keyword_matches, phrase_matches) == score

\* the floor of a capability's score when something matched
ScoreFloor(score, keyword_matches, phrase_matches) ==
  IF keyword_matches > 0 \/ phrase_matches > 0 THEN RMax(score, R(6, 10)) ELSE score

\* the body of the loop of get_confidence_score: one capability's score
CapabilityScore(capability, query_lower) ==
  LET keyword_matches == Matches(capability.keywords, query_lower)
      phrase_matches == Matches(capability.phrases, query_lower)
      score == RAdd(KeywordScore(keyword_matches, Len(capability.keywords)),
                    PhraseScore(phrase_matches, Len(capability.phrases)))
      priority_bonus == RMul(R(capability.priority - 5, 1), R(5, 100))
      boosted == RAdd(score, RMax(priority_bonus, RZero))
      weighted == RMul(boosted, R(capability.priority, 10))
  IN  IF RLess(RZero, score)
      THEN ScoreFloor(weighted, keyword_matches, phrase_matches)
      ELSE score

\* the capabilities' scores added up, from 0.0
RECURSIVE SumScore(_, _, _)
SumScore(capabilities, query_lower, i) ==
  IF i > Len(capabilities) THEN RZero
  ELSE RAdd(CapabilityScore(capabilities[i], query_lower),
            SumScore(capabilities, query_lower, i + 1))

\* max_score = max(max_score, score) over the capabilities, from 0.0
RECURSIVE MaxScore(_, _, _)
MaxScore(capabilities, query_lower, i) ==
  IF i > Len(capabilities) THEN RZero
  ELSE RMax(CapabilityScore(capabilities[i], query_lower),
            MaxScore(capabilities, query_lower, i + 1))

\* BaseSpecializedAgent.get_confidence_score
get_confidence_score(capabilities, query) ==
  RMin(MaxScore(capabilities, Lower(query), 1), ROne)

\* --------------------------------------------------------------- registry

VARIABLES
  agents,           \* AgentRegistry.agents: agent id -> class (NoClass: absent)
  agent_metadata,   \* AgentRegistry.agent_metadata, in insertion order:
                    \* a sequence of [id, cls, enabled] (cls: whose capabilities)
  agent_instances,  \* AgentRegistry.agent_instances: agent id -> [cls, gen], the gen-th
                    \* object stored under the id (NoInstance: absent)
  disabled_by_call, \* ids disabled by disable_agent and not enabled by enable_agent since
  disabled_held,    \* ids disabled by disable_agent, neither enabled by enable_agent nor
                    \* given new metadata by a registration since
  reg               \* the last registry call: [op, id, query, exclude, harvested, ret]

regVars == <<agents, agent_metadata, agent_instances, disabled_by_call, disabled_held, reg>>

AgentIds == {"aws_pricing", "security", "audit"}

\* the largest number of objects a behaviour stores under one agent id
MaxGeneration == 1

\* the classes registered by register_agent_class, and under which id
RegistrableClasses == { <<"audit", "AuditAgent">>, <<"audit", "SecurityReviewAgent">> }
\* the instances registered by register_agent_instance, and under which id
RegistrableInstances == { <<"security", "SecurityReviewAgent">> }

NoInstance == [cls |-> NoClass, gen |-> 0]
NoAgent == "null"

\* a new object of class cls, stored where previous was
Instance(cls, previous) == [cls |-> cls, gen |-> previous.gen + 1]

\* the queries the registry is asked about
SecurityQuery ==
  <<"p","l","e","a","s","e"," ","d","o"," ","a"," ","s","e","c","u","r","i","t","y"," ",
    "r","e","v","i","e","w"," ","o","f"," ","m","y"," ","s","e","t","u","p">>
CostQuery ==
  <<"W","h","a","t"," ","i","s"," ","t","h","e"," ","C","O","S","T"," ","o","f"," ",
    "E","C","2","?">>
AuditQuery == <<"a","u","d","i","t"," ","m","y"," ","s","e","t","u","p">>
RegistryQueries == {SecurityQuery, CostQuery, AuditQuery}

\* ------------------------------------------------ texts of the orchestrator

\* s[:n]
Take(s, n) == IF Len(s) > n THEN SubSeq(s, 1, n) ELSE s

\* s[-n:]
Last(s, n) == IF Len(s) > n THEN SubSeq(s, Len(s) - n + 1, Len(s)) ELSE s

\* sep.join(pieces)
RECURSIVE Join(_, _)
Join(pieces, sep) ==
  IF pieces = <<>> THEN <<>>
  ELSE IF Len(pieces) = 1 THEN pieces[1]
  ELSE pieces[1] \o sep \o Join(Tail(pieces), sep)

\* "No previous conversation context."
NoPreviousContext ==
  <<"N","o"," ","p","r","e","v","i","o","u","s"," ","c","o","n","v","e","r","s","a","t","i",
    "o","n"," ","c","o","n","t","e","x","t",".">>
\* "General conversation in progress."
GeneralConversation ==
  <<"G","e","n","e","r","a","l"," ","c","o","n","v","e","r","s","a","t","i","o","n"," ","i",
    "n"," ","p","r","o","g","r","e","s","s",".">>
\* "Last agent used: "
LastAgentUsedLabel ==
  <<"L","a","s","t"," ","a","g","e","n","t"," ","u","s","e","d",":"," ">>
\* "Recent topics: "
RecentTopicsLabel ==
  <<"R","e","c","e","n","t"," ","t","o","p","i","c","s",":"," ">>
\* "; "
Semicolon == <<";", " ">>
\* "[CONTEXT: " and "]\n\nUser Query: "
ContextOpen ==
  <<"[","C","O","N","T","E","X","T",":"," ">>
ContextClose ==
  <<"]","\n","\n","U","s","e","r"," ","Q","u","e","r","y",":"," ">>
\* 'router_agent', and None
RouterAgentName ==
  <<"r","o","u","t","e","r","_","a","g","e","n","t">>
NoAgentUsed == <<>>

\* the users of the chat endpoint and what they ask
Users == {"alice", "bob"}
HelloQuery ==
  <<"h","e","l","l","o"," ","t","h","e","r","e">>
RouterQueries == {CostQuery, HelloQuery}
\* what the users ask while the registry changes
ToolsQueries == {HelloQuery, SecurityQuery}
RoutedQueries == RouterQueries \cup ToolsQueries

\* get_context_summary, lines 57-70, from the messages' side: the topics
\* joined (current_architecture is never set by the orchestrator)
SummaryText(agent_used, user_queries) ==
  LET topics ==
        (IF agent_used # NoAgentUsed
         THEN <<LastAgentUsedLabel \o agent_used>> ELSE <<>>)
        \o (IF user_queries # <<>>
            THEN <<RecentTopicsLabel \o Join(Last(user_queries, 2), Semicolon)>> ELSE <<>>)
  IN  IF topics # <<>> THEN Join(topics, Semicolon) ELSE GeneralConversation

\* RouterOrchestrator._enhance_query_with_context
_enhance_query_with_context(query, summary) ==
  IF summary = <<>> \/ summary = NoPreviousContext THEN query
  ELSE ContextOpen \o summary \o ContextClose \o query

\* the texts the router is given: a query under the summary of a context
\* whose last user message is that query
EnhancedQueries ==
  { _enhance_query_with_context(q, SummaryText(a, before \o <<Take(q, 100)>>)) :
      q \in RoutedQueries, a \in {NoAgentUsed, RouterAgentName},
      before \in {<<>>} \cup {<<Take(p, 100)>> : p \in RoutedQueries} }

\* the texts a confidence is computed for
ScoredQueries == RegistryQueries \cup RouterQueries \cup EnhancedQueries

\* agent.get_confidence_score(query) for an instance of cls, tabulated
ConfidenceTable ==
  [cls \in Classes |->
     [q \in ScoredQueries |-> get_confidence_score(ClassCapabilities(cls), q)]]

\* position of agent_id in the metadata dictionary, 0 if it has no entry
MetaIndex(metadata, agent_id) ==
  IF \E i \in 1..Len(metadata) : metadata[i].id = agent_id
  THEN CHOOSE i \in 1..Len(metadata) : metadata[i].id = agent_id
  ELSE 0

\* self.agent_metadata[agent_id] = metadata: a new key goes last, an existing
\* key keeps its place
SetMetadata(metadata, agent_id, cls, enabled) ==
  LET entry == [id |-> agent_id, cls |-> cls, enabled |-> enabled]
      i == MetaIndex(metadata, agent_id)
  IN  IF i = 0 THEN Append(metadata, entry) ELSE [metadata EXCEPT ![i] = entry]

\* metadata.enabled = value, if agent_id has metadata
SetEnabled(metadata, agent_id, value) ==
  [i \in 1..Len(metadata) |->
     IF metadata[i].id = agent_id THEN [metadata[i] EXCEPT !.enabled = value]
     ELSE metadata[i]]

\* a fault: get_agent without the lookup in agent_instances, constructing anew
\* at every call
get_agent_uncached(instances, classes, agent_id, constructs) ==
  IF classes[agent_id] # NoClass /\ constructs
  THEN LET agent_instance == Instance(classes[agent_id], instances[agent_id])
       IN  [ret |-> agent_instance,
            instances |-> [instances EXCEPT ![agent_id] = agent_instance]]
  ELSE [ret |-> instances[agent_id], instances |-> instances]

\* a fault: the instance put in the cache before its construction ends
get_agent_caching_failure(instances, classes, agent_id, constructs) ==
  IF instances[agent_id] # NoInstance
  THEN [ret |-> instances[agent_id], instances |-> instances]
  ELSE IF classes[agent_id] # NoClass
  THEN LET agent_instance == Instance(classes[agent_id], instances[agent_id])
       IN  [ret |-> IF constructs THEN agent_instance ELSE NoInstance,
            instances |-> [instances EXCEPT ![agent_id] = agent_instance]]
  ELSE [ret |-> NoInstance, instances |-> instances]

\* AgentRegistry.get_agent: the instance returned (NoInstance: None) and the
\* cache afterwards.  constructs: the class's constructor does not raise.
get_agent(instances, classes, agent_id, constructs) ==
  IF instances[agent_id] # NoInstance
  THEN [ret |-> instances[agent_id], instances |-> instances]
  ELSE IF classes[agent_id] # NoClass /\ constructs
  THEN LET agent_instance == Instance(classes[agent_id], instances[agent_id])
       IN  [ret |-> agent_instance,
            instances |-> [instances EXCEPT ![agent_id] = agent_instance]]
  ELSE [ret |-> NoInstance, instances |-> instances]

\* AgentRegistry.get_available_agents: the ids whose metadata is enabled
get_available_agents(metadata) ==
  {metadata[i].id : i \in {j \in 1..Len(metadata) : metadata[j].enabled}}

\* a fault: the loop skipping the excluded ids only
ConsideredThoughDisabled(entry, exclude_agents) == entry.id \notin exclude_agents

\* find_best_agent, line 212: the agents the loop does not skip
Considered(entry, exclude_agents) ==
  ~(entry.id \in exclude_agents \/ ~entry.enabled)

\* a fault: no threshold test
ThresholdIgnored(confidence, min_confidence) == TRUE

\* find_best_agent, lines 224-225: "if confidence < min_confidence: continue"
MeetsThreshold(confidence, min_confidence) == ~RLess(confidence, min_confidence)

\* min(cap.confidence_threshold for cap in capabilities), capabilities not empty
MinThreshold(capabilities) ==
  LET j == CHOOSE j \in 1..Len(capabilities) :
             \A i \in 1..Len(capabilities) :
                RLeq(capabilities[j].confidence_threshold, capabilities[i].confidence_threshold)
  IN  capabilities[j].confidence_threshold

\* max(cap.priority for cap in capabilities), capabilities not empty
MaxPriority(capabilities) ==
  CHOOSE p \in {capabilities[i].priority : i \in 1..Len(capabilities)} :
     \A i \in 1..Len(capabilities) : capabilities[i].priority <= p

\* weighted_score = confidence * (max_priority / 10.0)
WeightedScore(confidence, capabilities) ==
  RMul(confidence, R(MaxPriority(capabilities), 10))

\* a fault: ">=" for ">", the last of equal scores winning
BetterOrEqual(weighted_score, best_score) == RLeq(best_score, weighted_score)

\* find_best_agent, line 231: "if weighted_score > best_score"
Better(weighted_score, best_score) == RLess(best_score, weighted_score)

\* one iteration of the loop of find_best_agent over agent_metadata.items();
\* acc is [instances, best_agent, best_score], failing the ids whose
\* constructor raises during this call
FindBestStep(entry, classes, query, exclude_agents, failing, acc) ==
  LET got == get_agent(acc.instances, classes, entry.id, entry.id \notin failing)
      seen == [acc EXCEPT !.instances = got.instances]
      capabilities == ClassCapabilities(entry.cls)
      confidence == ConfidenceTable[got.ret.cls][query]
      weighted_score == WeightedScore(confidence, capabilities)
  IN  IF ~Considered(entry, exclude_agents) THEN acc
      ELSE IF got.ret = NoInstance THEN seen
      ELSE IF Len(capabilities) = 0 THEN seen  \* min() of nothing raises, caught
      ELSE IF ~MeetsThreshold(confidence, MinThreshold(capabilities)) THEN seen
      ELSE IF Better(weighted_score, acc.best_score)
      THEN [seen EXCEPT !.best_agent = entry.id, !.best_score = weighted_score]
      ELSE seen

RECURSIVE FindBestLoop(_, _, _, _, _, _, _)
FindBestLoop(metadata, classes, query, exclude_agents, failing, acc, i) ==
  IF i > Len(metadata) THEN acc
  ELSE FindBestLoop(metadata, classes, query, exclude_agents, failing,
                    FindBestStep(metadata[i], classes, query, exclude_agents, failing, acc),
                    i + 1)

\* AgentRegistry.find_best_agent: [instances, best_agent, best_score]
find_best_agent(metadata, classes, instances, query, exclude_agents, failing) ==
  FindBestLoop(metadata, classes, query, exclude_agents, failing,
               [instances |-> instances, best_agent |-> NoAgent, best_score |-> RZero], 1)

NoCall ==
  [op |-> "init", id |-> NoAgent, query |-> <<>>, exclude |-> {},
   harvested |-> FALSE, ret_instance |-> NoInstance, ret_agent |-> NoAgent]

\* AgentRegistry.__init__: the built-in pricing agent is registered; its
\* throwaway construction succeeds (metadata recorded) or raises (logged)
RegistryInit ==
  /\ agents = [a \in AgentIds |-> IF a = "aws_pricing" THEN "AWSPricingAgent" ELSE NoClass]
  /\ \E harvested \in BOOLEAN :
       agent_metadata =
         IF harvested THEN SetMetadata(<<>>, "aws_pricing", "AWSPricingAgent", TRUE)
         ELSE <<>>
  /\ agent_instances = [a \in AgentIds |-> NoInstance]
  /\ disabled_by_call = {}
  /\ disabled_held = {}
  /\ reg = NoCall

\* register_agent_class(agent_id, agent_class); harvested: the throwaway
\* instance is constructed and gives its metadata
RegisterAgentClass(agent_id, cls, harvested) ==
  /\ agents' = [agents EXCEPT ![agent_id] = cls]
  /\ agent_metadata' =
       IF harvested THEN SetMetadata(agent_metadata, agent_id, cls, TRUE) ELSE agent_metadata
  /\ disabled_held' = IF harvested THEN disabled_held \ {agent_id} ELSE disabled_held
  /\ reg' = [NoCall EXCEPT !.op = "register_agent_class", !.id = agent_id,
                           !.harvested = harvested]
  /\ UNCHANGED <<agent_instances, disabled_by_call>>

\* register_agent_instance(agent_id, agent_instance): the caller constructed
\* the instance of cls, whose get_metadata() reports enabled=True
RegisterAgentInstance(agent_id, cls) ==
  /\ agent_instances[agent_id].gen < MaxGeneration
  /\ agent_instances' =
       [agent_instances EXCEPT ![agent_id] = Instance(cls, agent_instances[agent_id])]
  /\ agent_metadata' = SetMetadata(agent_metadata, agent_id, cls, TRUE)
  /\ disabled_held' = disabled_held \ {agent_id}
  /\ reg' = [NoCall EXCEPT !.op = "register_agent_instance"]
  /\ UNCHANGED <<agents, disabled_by_call>>

\* get_agent(agent_id)
GetAgent(agent_id, constructs) ==
  LET got == get_agent(agent_instances, agents, agent_id, constructs)
  IN  /\ constructs \/ (agent_instances[agent_id] = NoInstance /\ agents[agent_id] # NoClass)
      /\ agent_instances' = got.instances
      /\ reg' = [NoCall EXCEPT !.op = "get_agent", !.id = agent_id, !.ret_instance = got.ret]
      /\ UNCHANGED <<agents, agent_metadata, disabled_by_call, disabled_held>>

\* find_best_agent(query, exclude_agents)
FindBestAgent(query, exclude_agents, failing) ==
  LET found == find_best_agent(agent_metadata, agents, agent_instances,
                               query, exclude_agents, failing)
  IN  /\ \A a \in failing : agent_instances[a] = NoInstance /\ agents[a] # NoClass
      /\ agent_instances' = found.instances
      /\ reg' = [NoCall EXCEPT !.op = "find_best_agent", !.query = query,
                               !.exclude = exclude_agents, !.ret_agent = found.best_agent]
      /\ UNCHANGED <<agents, agent_metadata, disabled_by_call, disabled_held>>

\* enable_agent(agent_id)
EnableAgent(agent_id) ==
  /\ agent_metadata' = SetEnabled(agent_metadata, agent_id, TRUE)
  /\ disabled_by_call' = disabled_by_call \ {agent_id}
  /\ disabled_held' = disabled_held \ {agent_id}
  /\ reg' = [NoCall EXCEPT !.op = "enable_agent"]
  /\ UNCHANGED <<agents, agent_instances>>

\* disable_agent(agent_id)
DisableAgent(agent_id) ==
  /\ agent_metadata' = SetEnabled(agent_metadata, agent_id, FALSE)
  /\ disabled_by_call' =
       IF MetaIndex(agent_metadata, agent_id) # 0
       THEN disabled_by_call \cup {agent_id} ELSE disabled_by_call
  /\ disabled_held' =
       IF MetaIndex(agent_metadata, agent_id) # 0
       THEN disabled_held \cup {agent_id} ELSE disabled_held
  /\ reg' = [NoCall EXCEPT !.op = "disable_agent"]
  /\ UNCHANGED <<agents, agent_instances>>

\* get_agent_status(): a test instance is constructed for every agent with a
\* class and no cached instance, and dropped; nothing of the registry changes
GetAgentStatus ==
  /\ reg' = [NoCall EXCEPT !.op = "get_agent_status"]
  /\ UNCHANGED <<agents, agent_metadata, agent_instances, disabled_by_call, disabled_held>>

\* the sets of at most one agent id
AtMostOne == {{}} \cup {{a} : a \in AgentIds}

\* ---------------------------------------------------------- pricing agent

VARIABLES
  mcp_client,            \* AWSPricingAgent.mcp_client is not None
  query_cache,           \* query_cache, in insertion order: a sequence of [key, result]
  performance_stats,     \* [total_queries, cache_hits, mcp_calls]
  conversation_context,  \* the list of context entries
  current_architecture,  \* the architecture dictionary
  baseline_costs,        \* the last cost_info kept as baseline (NoCosts: {})
  scenario_history,      \* the list of scenarios
  monitor_tasks,         \* monitor_execution tasks created and not cancelled
  worker_threads,        \* to_thread workers that no call waited for to the end
  pq                     \* the last two process_pricing_query calls and their results

pricingVars == <<mcp_client, query_cache, performance_stats, conversation_context,
                 current_architecture, baseline_costs, scenario_history, monitor_tasks,
                 worker_threads, pq>>

\* "if len(self.query_cache) < 10"
CacheLimit == 10
\* "if len(self.scenario_history) > 5"
ScenarioLimit == 5
\* self.max_context_length
max_context_length == 8000
\* len() of the notice the fallback branch wraps its answer in, and of the
\* frame around the raw tool data
FallbackNoticeLength == 161
RawFrameLength == 138

\* the pricing queries
CostQueryPadded ==
  <<" "," ","w","h","a","t"," ","i","s"," ","t","h","e"," ","c","o","s","t"," ","o","f"," ",
    "e","c","2","?"," "," ">>
ScenarioQuery ==
  <<"w","h","a","t"," ","i","f"," ","w","e"," ","a","d","d"," ","S","3"," ","i","n","s","t",
    "e","a","d","?">>
PricingQueries == {CostQuery, CostQueryPadded, ScenarioQuery}

\* the two queries of a conversation about one instance, and the queries of
\* a conversation of several turns
Ec2PriceQuery ==
  <<"P","r","i","c","e"," ","a","n"," ","E","C","2"," ","t","3",".","s","m","a","l","l"," ","i","n"," ","u","s","-","e","a","s","t","-","1">>
SwitchQuery ==
  <<"W","h","a","t"," ","i","f"," ","I"," ","s","w","i","t","c","h"," ","t","o"," ","t","3",".","m","e","d","i","u","m","?">>
TurnQueries == {Ec2PriceQuery, SwitchQuery, CostQuery, ScenarioQuery}

\* a query the chain of _classify_query_type calls an optimization, and one
\* it calls a modification
AlternativeQuery ==
  <<"A","n","y"," ","c","h","e","a","p","e","r"," ","a","l","t","e","r","n","a","t","i","v","e","?">>
AlsoQuery ==
  <<"A","l","s","o"," ","a"," ","q","u","e","u","e">>
ClassifiedQueries == {AlternativeQuery, AlsoQuery, CostQuery, SwitchQuery}

\* the number of distinct queries, and of calls, in a long run of the cache
MaxCacheQueries == 11
MaxCacheCalls == 13

DigitChar == <<"0", "1", "2", "3", "4", "5", "6", "7", "8", "9">>

RECURSIVE DigitChars(_)
DigitChars(n) ==
  IF n < 10 THEN <<DigitChar[n + 1]>>
  ELSE DigitChars(n \div 10) \o <<DigitChar[(n % 10) + 1]>>

\* the i-th query of a long run, "cost <i>", and the same query in capitals
\* between blanks
NumberedQuery(i) == <<"c","o","s","t"," ">> \o DigitChars(i)
ShoutedQuery(i) == <<" ","C","O","S","T"," ">> \o DigitChars(i) \o <<" ">>

\* the number of calls in a long run of scenarios
MaxScenarioCalls == 7

\* the i-th scenario of a long run, "what if <i>"
NumberedScenario(i) == <<"w","h","a","t"," ","i","f"," ">> \o DigitChars(i)
ScenarioQueries == {NumberedScenario(i) : i \in 1..MaxScenarioCalls}

\* the queries of a long run
CacheQueries ==
  {NumberedQuery(i) : i \in 1..MaxCacheQueries} \cup {ShoutedQuery(i) : i \in 1..MaxCacheQueries}

\* query.lower().strip(), which hash() turns into the cache key (two keys
\* are taken to be equal only when the normalized texts are)
CacheKey(query) == Strip(Lower(query))

\* str(response) of a model call, by what the agent reads in it: its length,
\* whether it starts with the warning sign, and what the patterns of
\* _extract_architecture_info and _extract_cost_estimates find in it
PlainText ==
  [id |-> "plain", len |-> 60, warned |-> FALSE, services |-> {}, instance_types |-> {},
   regions |-> {}, usage_patterns |-> {}, monthly_total |-> 0, annual_total |-> 0,
   service_breakdown |-> {}]
CostedText ==
  [id |-> "costed", len |-> 40000, warned |-> FALSE, services |-> {"EC2", "RDS"},
   instance_types |-> {"t3.small"}, regions |-> {"us-east-1"},
   usage_patterns |-> {<<"users", 100>>}, monthly_total |-> 70, annual_total |-> 840,
   service_breakdown |-> {<<"EC2", 70>>}]
WarnedText ==
  [id |-> "warned", len |-> 90, warned |-> TRUE, services |-> {"S3"}, instance_types |-> {},
   regions |-> {"eu-west-1"}, usage_patterns |-> {<<"users", 5>>}, monthly_total |-> 0,
   annual_total |-> 0, service_breakdown |-> {<<"S3", 3>>}]
ErrorText ==
  [id |-> "error", len |-> 400, warned |-> FALSE, services |-> {}, instance_types |-> {},
   regions |-> {}, usage_patterns |-> {}, monthly_total |-> 0, annual_total |-> 0,
   service_breakdown |-> {}]
AnnualText ==
  [id |-> "annual", len |-> 80, warned |-> FALSE, services |-> {}, instance_types |-> {},
   regions |-> {}, usage_patterns |-> {}, monthly_total |-> 0, annual_total |-> 1200,
   service_breakdown |-> {}]
Texts == {PlainText, CostedText, WarnedText}
\* the answers of a conversation of several turns
TurnTexts == {PlainText, CostedText, AnnualText}

\* the response of the agent: a text, bare or wrapped
Response(text, notice) == [text |-> text, notice |-> notice]
ResponseLength(response) ==
  response.text.len +
    (CASE response.notice = "fallback" -> FallbackNoticeLength
       [] response.notice = "raw" -> RawFrameLength
       [] OTHER -> 0)

\* where the tool tier fails: nowhere; at the first list_tools_sync(); in the
\* tool-enabled model call, by an exception or by the 30 s timeout; when the
\* client context is left after the tool data arrived; in the analysis agent;
\* in the formatting agent; and the task of the call cancelled while it
\* awaits the tool-enabled model call, its only await
Stages == {"none", "list_tools", "tool_raise", "tool_timeout", "context_exit",
           "analysis", "format", "cancelled"}
\* the failures after which tool_response is set
AfterToolData == {"context_exit", "analysis", "format"}
\* the failures that leave the monitor task running: monitor_task.cancel() is
\* reached on success and in the TimeoutError handler only
LeavesMonitor == {"tool_raise", "context_exit", "cancelled"}
\* the failures that leave the worker thread of asyncio.to_thread running:
\* wait_for gives up the wait, the thread is neither stopped nor joined
LeavesWorker == {"tool_timeout", "cancelled"}

\* aws_services of _extract_architecture_info, with the upper-case names
AwsServices ==
  << <<<<"e","c","2">>, "EC2">>, <<<<"r","d","s">>, "RDS">>, <<<<"s","3">>, "S3">>,
     <<<<"l","a","m","b","d","a">>, "LAMBDA">>, <<<<"e","k","s">>, "EKS">>,
     <<<<"e","c","s">>, "ECS">>, <<<<"e","l","b">>, "ELB">>, <<<<"a","l","b">>, "ALB">>,
     <<<<"n","l","b">>, "NLB">>, <<<<"c","l","o","u","d","f","r","o","n","t">>, "CLOUDFRONT">>,
     <<<<"r","o","u","t","e","5","3">>, "ROUTE53">>,
     <<<<"d","y","n","a","m","o","d","b">>, "DYNAMODB">>,
     <<<<"r","e","d","s","h","i","f","t">>, "REDSHIFT">>, <<<<"e","m","r">>, "EMR">>,
     <<<<"s","q","s">>, "SQS">>, <<<<"s","n","s">>, "SNS">>
  >>

\* the upper-case names of the aws_services found in a lower-case text
ServicesNamed(text_lower) ==
  {AwsServices[i][2] : i \in {j \in 1..Len(AwsServices) :
                                Contains(AwsServices[j][1], text_lower)}}

\* instance types and regions the patterns of _extract_architecture_info
\* find, among those the texts of the model name
InstanceTypes ==
  << <<<<"t","3",".","s","m","a","l","l">>, "t3.small">>, <<<<"t","3",".","m","e","d","i","u","m">>, "t3.medium">> >>
Regions ==
  << <<<<"u","s","-","e","a","s","t","-","1">>, "us-east-1">>, <<<<"e","u","-","w","e","s","t","-","1">>, "eu-west-1">> >>

\* re.findall of a pattern in a lower-case text, over the names above
Found(names, text_lower) ==
  {names[i][2] : i \in {j \in 1..Len(names) : Contains(names[j][1], text_lower)}}

\* the word lists of _classify_query_type
CompareWords ==
  << <<"c","o","m","p","a","r","e">>, <<"c","o","m","p","a","r","i","s","o","n">>,
     <<"v","s">>, <<"v","e","r","s","u","s">>, <<"d","i","f","f","e","r","e","n","c","e">> >>
OptimizeWords ==
  << <<"o","p","t","i","m","i","z","e">>, <<"r","e","d","u","c","e">>, <<"s","a","v","e">>,
     <<"c","h","e","a","p","e","r">>, <<"a","l","t","e","r","n","a","t","i","v","e">> >>
ScenarioWords ==
  << <<"w","h","a","t"," ","i","f">>, <<"s","c","e","n","a","r","i","o">>,
     <<"i","n","s","t","e","a","d">>, <<"c","h","a","n","g","e">> >>
ModifyWords ==
  << <<"a","d","d">>, <<"i","n","c","l","u","d","e">>, <<"a","l","s","o">>,
     <<"a","d","d","i","t","i","o","n","a","l","l","y">> >>
PricingWords ==
  << <<"c","o","s","t">>, <<"p","r","i","c","e">>, <<"e","s","t","i","m","a","t","e">>,
     <<"b","u","d","g","e","t">> >>

\* the chain of tests of _classify_query_type on query_lower
QueryTypeOf(query_lower) ==
  IF ContainsAny(CompareWords, query_lower) THEN "comparison"
  ELSE IF ContainsAny(OptimizeWords, query_lower) THEN "optimization"
  ELSE IF ContainsAny(ScenarioWords, query_lower) THEN "scenario"
  ELSE IF ContainsAny(ModifyWords, query_lower) THEN "modification"
  ELSE IF ContainsAny(PricingWords, query_lower) THEN "pricing"
  ELSE "general"

\* a fault: the words looked up in the query as it was typed
_classify_query_as_typed(query) == QueryTypeOf(query)

_classify_query_type(query) == QueryTypeOf(Lower(query))

\* comparison_keywords of _is_comparison_query
ComparisonKeywords ==
  << <<"c","o","m","p","a","r","e">>, <<"c","o","m","p","a","r","i","s","o","n">>,
     <<"v","s">>, <<"v","e","r","s","u","s">>, <<"d","i","f","f","e","r","e","n","c","e">>,
     <<"w","h","a","t"," ","i","f">>, <<"s","c","e","n","a","r","i","o">>,
     <<"a","l","t","e","r","n","a","t","i","v","e">> >>

_is_comparison_query(query) == ContainsAny(ComparisonKeywords, Lower(query))

\* what the agent computes from the text of a query, tabulated for the
\* queries of the model
QueryFacts ==
  [query \in PricingQueries \cup CacheQueries \cup RoutedQueries \cup TurnQueries \cup ClassifiedQueries
              \cup ScenarioQueries |->
     [key |-> CacheKey(query),
      query_type |-> _classify_query_type(query),
      comparison |-> _is_comparison_query(query),
      services |-> ServicesNamed(Lower(query)),
      instance_types |-> Found(InstanceTypes, Lower(query)),
      regions |-> Found(Regions, Lower(query))]]

\* _extract_architecture_info(query, response): the services named in the query
\* or the response, the instance types and the regions likewise; usage figures
\* as the response holds them (the queries of this model hold none)
_extract_architecture_info(query, response) ==
  [services |-> QueryFacts[query].services \cup response.text.services,
   instance_types |-> QueryFacts[query].instance_types \cup response.text.instance_types,
   regions |-> QueryFacts[query].regions \cup response.text.regions,
   usage_patterns |-> response.text.usage_patterns]

\* _extract_cost_estimates(response): what the cost patterns find (0: None)
_extract_cost_estimates(response) ==
  [monthly_total |-> response.text.monthly_total,
   annual_total |-> response.text.annual_total,
   service_breakdown |-> response.text.service_breakdown]

\* self.baseline_costs = {}
NoCosts == [monthly_total |-> 0, annual_total |-> 0, service_breakdown |-> {}]

\* self.current_architecture = {}
NoArchitecture ==
  [last_updated |-> FALSE, services |-> {}, instance_types |-> {}, regions |-> {},
   usage_patterns |-> {}]

\* dict.update on dictionaries kept as sets of <<key, value>>
DictUpdate(old, new) ==
  {p \in old : \A n \in new : n[1] # p[1]} \cup new

\* a fault: the services replaced, as the regions are
_update_architecture_replacing(architecture, architecture_info) ==
  [last_updated |-> TRUE,
   services |-> architecture_info.services,
   instance_types |-> architecture_info.instance_types,
   regions |-> architecture_info.regions,
   usage_patterns |-> architecture_info.usage_patterns]

\* _update_architecture_state(architecture_info)
_update_architecture_state(architecture, architecture_info) ==
  [last_updated |-> TRUE,
   services |-> architecture.services \cup architecture_info.services,
   instance_types |->
     IF architecture_info.instance_types # {} THEN architecture_info.instance_types
     ELSE architecture.instance_types,
   regions |->
     IF architecture_info.regions # {} THEN architecture_info.regions
     ELSE architecture.regions,
   usage_patterns |-> DictUpdate(architecture.usage_patterns, architecture_info.usage_patterns)]

RECURSIVE SeqSum(_)
SeqSum(s) == IF s = <<>> THEN 0 ELSE Head(s) + SeqSum(Tail(s))

\* s[-3:]
LastThree(s) == IF Len(s) > 3 THEN SubSeq(s, Len(s) - 2, Len(s)) ELSE s

\* len() of sep.join of pieces of the given lengths
JoinedLength(lengths, sep_length) ==
  IF lengths = <<>> THEN 0 ELSE SeqSum(lengths) + sep_length * (Len(lengths) - 1)

RECURSIVE Digits(_)
Digits(n) == IF n < 10 THEN 1 ELSE 1 + Digits(n \div 10)

\* len(', '.join(services)) of upper-case service names
ServicesLength(services) ==
  LET named == SelectSeq(AwsServices, LAMBDA s : s[2] \in services)
  IN  JoinedLength([i \in 1..Len(named) |-> Len(named[i][1])], 2)

\* 'CONTEXT_SUMMARY'
ContextSummaryMark ==
  <<"C","O","N","T","E","X","T","_","S","U","M","M","A","R","Y">>

\* len() of the text _summarize_conversation_context writes for older_context
SummaryLength(older_context) ==
  LET ItemLength(item) ==
        (CASE item.query_type = "pricing" -> 15
           [] item.query_type = "comparison" -> 12
           [] item.query_type = "optimization" -> 14
           [] item.query_type = "scenario" -> 10
           [] item.query_type = "modification" -> 21
           [] OTHER -> 15)
        + (IF Len(item.query) > 80 THEN 80 ELSE Len(item.query)) + 3
      summary_items == [i \in 1..Len(older_context) |-> ItemLength(older_context[i])]
      changes == SelectSeq(older_context,
                           LAMBDA item : /\ item.query_type = "modification"
                                         /\ item.architecture_info.services # {})
      architecture_evolution ==
        [i \in 1..Len(changes) |-> 7 + ServicesLength(changes[i].architecture_info.services)]
      costed == SelectSeq(older_context,
                          LAMBDA item : /\ item.query_type = "pricing"
                                        /\ item.cost_estimates.monthly_total # 0)
      cost_evolution ==
        [i \in 1..Len(costed) |-> 1 + Digits(costed[i].cost_estimates.monthly_total) + 6]
      summary_parts ==
        (IF summary_items # <<>>
         THEN <<18 + JoinedLength(LastThree(summary_items), 2)>> ELSE <<>>)
        \o (IF architecture_evolution # <<>>
            THEN <<24 + JoinedLength(architecture_evolution, 2)>> ELSE <<>>)
        \o (IF cost_evolution # <<>>
            THEN <<18 + JoinedLength(LastThree(cost_evolution), 3)>> ELSE <<>>)
  IN  22 + JoinedLength(summary_parts, 3)

\* the entry _summarize_conversation_context puts in front of the recent two
SummaryEntry(older_context) ==
  [query |-> ContextSummaryMark,
   response |-> Response([PlainText EXCEPT !.id = "summary",
                                           !.len = SummaryLength(older_context)], "none"),
   query_type |-> "summary",
   architecture_info |-> [services |-> {}, instance_types |-> {}, regions |-> {},
                          usage_patterns |-> {}],
   cost_estimates |-> NoCosts]

\* a fault: the recent three exchanges kept
_summarize_keeping_three(context) ==
  IF Len(context) <= 3 THEN context
  ELSE <<SummaryEntry(SubSeq(context, 1, Len(context) - 3))>>
         \o SubSeq(context, Len(context) - 2, Len(context))

\* _summarize_conversation_context(): every item of older_context gives a
\* summary item, so the summary is written whenever there is older context
_summarize_conversation_context(context) ==
  IF Len(context) <= 2 THEN context
  ELSE LET recent_context == SubSeq(context, Len(context) - 1, Len(context))
           older_context == SubSeq(context, 1, Len(context) - 2)
       IN  <<SummaryEntry(older_context)>> \o recent_context

\* estimated_tokens of _manage_conversation_context
EstimatedTokens(context) ==
  SeqSum([i \in 1..Len(context) |->
            Len(context[i].query) + ResponseLength(context[i].response)]) \div 4

\* the entry _manage_conversation_context appends
ContextEntry(query, response) ==
  [query |-> query,
   response |-> response,
   query_type |-> QueryFacts[query].query_type,
   architecture_info |-> _extract_architecture_info(query, response),
   cost_estimates |-> _extract_cost_estimates(response)]

\* _manage_conversation_context(query, response): the context and the
\* architecture afterwards
_manage_conversation_context(context, architecture, query, response) ==
  LET architecture_info == _extract_architecture_info(query, response)
      appended == Append(context, ContextEntry(query, response))
  IN  [conversation_context |->
         IF EstimatedTokens(appended) > max_context_length
         THEN _summarize_conversation_context(appended) ELSE appended,
       current_architecture |->
         IF architecture_info.services # {} \/ architecture_info.instance_types # {}
         THEN _update_architecture_state(architecture, architecture_info)
         ELSE architecture]

\* a fault: the history never cut
_add_scenario_unbounded(history, query, cost_info, architecture) ==
  Append(history, [query |-> query, cost_info |-> cost_info,
                   architecture_snapshot |-> architecture])

\* _add_scenario_to_history(query, response, cost_info)
_add_scenario_to_history(history, query, cost_info, architecture) ==
  LET appended == Append(history, [query |-> query, cost_info |-> cost_info,
                                   architecture_snapshot |-> architecture])
  IN  IF Len(appended) > ScenarioLimit
      THEN SubSeq(appended, Len(appended) - ScenarioLimit + 1, Len(appended))
      ELSE appended

\* _get_context_aware_query(query): whether a CONTEXT block is put before the query
HasContextBlock(context, architecture, baseline, history, query) ==
  /\ context # <<>>
  /\ \/ architecture.last_updated
          /\ (architecture.services # {} \/ architecture.instance_types # {}
              \/ architecture.regions # {} \/ architecture.usage_patterns # {})
     \/ baseline.monthly_total # 0 \/ baseline.service_breakdown # {}
     \/ \E i \in 1..Len(context) :
           i >= Len(context) - 1 /\ context[i].query # ContextSummaryMark
     \/ QueryFacts[query].comparison /\ Len(history) > 0

\* position of the key in the cache, 0 if it is not there
CacheIndex(cache, key) ==
  IF \E i \in 1..Len(cache) : cache[i].key = key
  THEN CHOOSE i \in 1..Len(cache) : cache[i].key = key
  ELSE 0

NoResult == [status |-> "none"]

\* the call did not return: CancelledError is not an Exception, no handler
\* of process_pricing_query catches it
AbandonedResult == [status |-> "abandoned"]

\* the result of the except branch of process_pricing_query; troubleshooting
\* is the dictionary _handle_mcp_error_enhanced returns
ErrorResult(stats, has_client) ==
  [status |-> "error",
   response |-> Response(ErrorText, "none"),
   agent_type |-> "aws_pricing_error",
   mcp_available |-> has_client,
   performance_stats |-> stats,
   troubleshooting |-> "dict",
   confidence |-> "low"]

\* the largest number of process_pricing_query calls in a behaviour
MaxPricingCalls == 3

\* AWSPricingAgent.__init__, the MCP client initialized or not
PricingInit ==
  /\ mcp_client \in BOOLEAN
  /\ query_cache = <<>>
  /\ performance_stats = [total_queries |-> 0, cache_hits |-> 0, mcp_calls |-> 0]
  /\ conversation_context = <<>>
  /\ current_architecture = NoArchitecture
  /\ baseline_costs = NoCosts
  /\ scenario_history = <<>>
  /\ monitor_tasks = 0
  /\ worker_threads = 0
  /\ pq = [query |-> <<>>, result |-> NoResult, fail |-> "none", fallback_ok |-> TRUE,
           context_block |-> FALSE,
           prev_query |-> <<>>, prev_result |-> NoResult, mcp_calls_before |-> 0]

\* the knowledge-only agent answers when there is no client, and when the
\* tool tier failed before tool_response was set
UsesFallback(has_client, fail) == ~has_client \/ fail \notin (AfterToolData \cup {"none"})

\* the response of the tiers: the formatted answer, the framed tool data, or
\* the knowledge-only answer under the notice (not added when the answer
\* starts with the warning sign, nor when there is no client)
TierResponse(has_client, fail, text) ==
  IF has_client /\ fail = "none" THEN Response(text, "none")
  ELSE IF has_client /\ fail \in AfterToolData THEN Response(text, "raw")
  ELSE IF has_client /\ ~text.warned THEN Response(text, "fallback")
  ELSE Response(text, "none")

\* a fault: the exception of the knowledge-only call swallowed
RaisesNever(has_client, fail, fallback_ok) == FALSE

\* the try block raises: the knowledge-only agent was called and raised
Raises(has_client, fail, fallback_ok) == UsesFallback(has_client, fail) /\ ~fallback_ok

\* a fault: mcp_available left as first set, "self.mcp_client is not None"
McpAvailableIfClient(has_client, fail) == has_client

\* mcp_available when the result is built: set by both branches that hold tool data
McpAvailable(has_client, fail) == has_client /\ fail \in (AfterToolData \cup {"none"})

\* "'high' if mcp_available else 'medium'"
Confidence(mcp_available) == IF mcp_available THEN "high" ELSE "medium"

\* a fault: the increment of the try block and that of its except branch
\* both made
CountToolCallTwice(stats, mcp_available) ==
  IF mcp_available THEN [stats EXCEPT !.mcp_calls = @ + 2] ELSE stats

\* "self.performance_stats['mcp_calls'] += 1", in the branch that holds the
\* tool data
CountToolCall(stats, mcp_available) ==
  IF mcp_available THEN [stats EXCEPT !.mcp_calls = @ + 1] ELSE stats

\* the last call, recorded
Recorded(query, result, fail, fallback_ok, context_block) ==
  [query |-> query, result |-> result, fail |-> fail, fallback_ok |-> fallback_ok,
   context_block |-> context_block,
   prev_query |-> pq.query, prev_result |-> pq.result,
   mcp_calls_before |-> performance_stats.mcp_calls]

\* process_pricing_query(query).  fail: where the tool tier fails; text: what
\* the last model call that succeeds answers; fallback_ok: the knowledge-only
\* agent does not raise
ProcessPricingQuery(query, fail, text, fallback_ok) ==
  LET query_hash == QueryFacts[query].key
      hit == CacheIndex(query_cache, query_hash)
      counted == [performance_stats EXCEPT !.total_queries = @ + 1]
      context_block == HasContextBlock(conversation_context, current_architecture,
                                       baseline_costs, scenario_history, query)
      mcp_available == McpAvailable(mcp_client, fail)
      stats == CountToolCall(counted, mcp_available)
      response == TierResponse(mcp_client, fail, text)
      managed == _manage_conversation_context(conversation_context, current_architecture,
                                              query, response)
      cost_info == _extract_cost_estimates(response)
      baseline == IF cost_info.monthly_total # 0 \/ cost_info.service_breakdown # {}
                  THEN cost_info ELSE baseline_costs
      scenarios ==
        IF QueryFacts[query].comparison
           \/ QueryFacts[query].query_type \in {"scenario", "modification"}
        THEN _add_scenario_to_history(scenario_history, query, cost_info,
                                      managed.current_architecture)
        ELSE scenario_history
      result ==
        [status |-> "success",
         response |-> response,
         agent_type |-> IF mcp_available THEN "aws_pricing_enhanced"
                        ELSE "aws_pricing_fallback",
         mcp_available |-> mcp_available,
         performance_stats |-> stats,
         cached |-> FALSE,
         confidence |-> Confidence(mcp_available),
         context_length |-> Len(managed.conversation_context),
         current_architecture |-> managed.current_architecture,
         baseline_costs |-> baseline,
         scenarios_tracked |-> Len(scenarios)]
      leaked == IF mcp_client /\ fail \in LeavesMonitor THEN 1 ELSE 0
      left == IF mcp_client /\ fail \in LeavesWorker THEN 1 ELSE 0
  IN  /\ IF hit # 0
         THEN \* the cached copy, marked
              /\ fail = "none" /\ text = PlainText /\ fallback_ok
              /\ performance_stats' = [counted EXCEPT !.cache_hits = @ + 1]
              /\ pq' = Recorded(query, [query_cache[hit].result EXCEPT !.cached = TRUE],
                                fail, fallback_ok, context_block)
              /\ UNCHANGED <<query_cache, conversation_context, current_architecture,
                             baseline_costs, scenario_history, monitor_tasks,
                             worker_threads>>
         ELSE IF fail = "cancelled"
         THEN \* CancelledError at the await: it leaves the function
              /\ mcp_client /\ text = PlainText /\ fallback_ok
              /\ performance_stats' = counted
              /\ monitor_tasks' = monitor_tasks + leaked
              /\ worker_threads' = worker_threads + left
              /\ pq' = Recorded(query, AbandonedResult, fail, fallback_ok, context_block)
              /\ UNCHANGED <<query_cache, conversation_context, current_architecture,
                             baseline_costs, scenario_history>>
         ELSE IF Raises(mcp_client, fail, fallback_ok)
         THEN \* the knowledge-only agent raised: the outer except branch
              /\ text = PlainText
              /\ mcp_client \/ fail = "none"
              /\ performance_stats' = counted
              /\ monitor_tasks' = monitor_tasks + leaked
              /\ worker_threads' = worker_threads + left
              /\ pq' = Recorded(query, ErrorResult(counted, mcp_client), fail, fallback_ok, context_block)
              /\ UNCHANGED <<query_cache, conversation_context, current_architecture,
                             baseline_costs, scenario_history>>
         ELSE /\ mcp_client \/ fail = "none"
              /\ UsesFallback(mcp_client, fail) \/ fallback_ok
              /\ performance_stats' = stats
              /\ monitor_tasks' = monitor_tasks + leaked
              /\ worker_threads' = worker_threads + left
              /\ conversation_context' = managed.conversation_context
              /\ current_architecture' = managed.current_architecture
              /\ baseline_costs' = baseline
              /\ scenario_history' = scenarios
              /\ query_cache' =
                   IF Len(query_cache) < CacheLimit
                   THEN Append(query_cache, [key |-> query_hash, result |-> result])
                   ELSE query_cache
              /\ pq' = Recorded(query, result, fail, fallback_ok, context_block)
      /\ UNCHANGED mcp_client

\* ------------------------------------------------ a long run of the cache

\* the number of each query of a long run
CacheQueryNumber ==
  [query \in CacheQueries |->
     CHOOSE i \in 1..MaxCacheQueries : CacheKey(query) = NumberedQuery(i)]

\* the number of the last query of a long run, 0 before the first
LastNumber == IF pq.query \in CacheQueries THEN CacheQueryNumber[pq.query] ELSE 0

\* a query not asked before, the tools answering
NewQuery ==
  /\ performance_stats.total_queries < MaxCacheCalls
  /\ LastNumber < MaxCacheQueries
  /\ ProcessPricingQuery(NumberedQuery(LastNumber + 1), "none", PlainText, TRUE)

\* the last query again, at once, in either spelling
RepeatQuery ==
  /\ performance_stats.total_queries < MaxCacheCalls
  /\ LastNumber > 0
  /\ \E query \in {NumberedQuery(LastNumber), ShoutedQuery(LastNumber)} :
        ProcessPricingQuery(query, "none", PlainText, TRUE)


\* ------------------------------------------------------------ orchestrator

VARIABLES
  messages,              \* ConversationContext.messages
  last_agent_used,       \* ConversationContext.last_agent_used (NoAgentUsed: None)
  context_summary,       \* ConversationContext.context_summary (<<>>: None)
  session_metadata,      \* ConversationContext.session_metadata, by the key contains_architecture
  conversation_history,  \* RouterAgent.conversation_history, each entry by role, content, user_id
  tools,                 \* the agent ids the router's model was given a tool for
  added,                 \* the messages given to add_message of this context, in order
  state_users,           \* the users whose turns the pricing agent's state was built from
  oq                     \* the last process_query call, and the numbers of calls

orchVars == <<messages, last_agent_used, context_summary, session_metadata,
              conversation_history, tools, added, state_users, oq>>

\* "if len(self.messages) > 20"
MaxMessages == 20
\* self.max_history_length
max_history_length == 10
\* get_relevant_context(max_messages=10), and get_relevant_context(5)
RelevantMessages == 10
SummaryMessages == 5

NoUser == "none"
PricingAgentId == "aws_pricing"

\* what is said, by what the orchestrator reads in it: the text of a query;
\* for an answer its kind, whether the guidance was appended and whether it
\* mentions an architecture
Content(kind, text, guidance, architecture) ==
  [kind |-> kind, text |-> text, guidance |-> guidance, architecture |-> architecture]

\* the intent_analysis dictionaries
IntentAnalysis(intent, selected_agent, confidence, confidence_score, general) ==
  [intent |-> intent, selected_agent |-> selected_agent, confidence |-> confidence,
   confidence_score |-> confidence_score, fallback_to_general |-> general,
   uncertainty_handled |-> general, fallback_suggestion |-> "none",
   fallback_applied |-> FALSE]
NoIntent == IntentAnalysis("none", "none", "none", RZero, FALSE)

\* user_message and assistant_message of process_query
UserMessage(query, user_id) ==
  [role |-> "user", content |-> Content("query", query, FALSE, FALSE), user_id |-> user_id,
   agent_type |-> "none", intent_analysis |-> NoIntent, timestamp |-> 0]
AssistantMessage(response) ==
  [role |-> "assistant", content |-> response.content, user_id |-> NoUser,
   agent_type |-> response.agent_type, intent_analysis |-> response.intent_analysis,
   timestamp |-> 0]

\* a fault: the first messages kept, the newest dropped
add_message_keeping_first(context_messages, message, now) ==
  Take(Append(context_messages, [message EXCEPT !.timestamp = now]), MaxMessages)

\* ConversationContext.add_message
add_message(context_messages, message, now) ==
  LET appended == Append(context_messages, [message EXCEPT !.timestamp = now])
  IN  IF Len(appended) > MaxMessages THEN Last(appended, MaxMessages) ELSE appended

\* ConversationContext.get_relevant_context
get_relevant_context(context_messages, max_messages) == Last(context_messages, max_messages)

\* the user messages get_context_summary quotes
QuotedMessages(context_messages) ==
  Last(SelectSeq(get_relevant_context(context_messages, SummaryMessages),
                 LAMBDA msg : msg.role = "user"), 2)

\* ConversationContext.get_context_summary
get_context_summary(context_messages, agent_used) ==
  IF context_messages = <<>> THEN NoPreviousContext
  ELSE LET quoted == QuotedMessages(context_messages)
       IN  SummaryText(agent_used, [i \in 1..Len(quoted) |-> Take(quoted[i].content.text, 100)])

\* ------------------------------------------------------------------ router

\* a fault: the buckets with strict comparisons
ConfidenceLevelStrict(confidence_score) ==
  IF RLess(R(7, 10), confidence_score) THEN "high"
  ELSE IF RLess(R(4, 10), confidence_score) THEN "medium"
  ELSE "low"

\* analyze_intent, lines 422-427
ConfidenceLevel(confidence_score) ==
  IF ~RLess(confidence_score, R(7, 10)) THEN "high"
  ELSE IF ~RLess(confidence_score, R(4, 10)) THEN "medium"
  ELSE "low"

\* analyze_intent, lines 429-452: the dictionary for the agent found and
\* its score, or for no agent
IntentFor(best_agent, confidence_score) ==
  IF best_agent # NoAgent
  THEN IntentAnalysis("specialized_agent", best_agent, ConfidenceLevel(confidence_score),
                      confidence_score, FALSE)
  ELSE IntentAnalysis("general", "general_response", "medium", RZero, TRUE)

\* analyze_intent, lines 415-452: from the agent found on
IntentOf(found, got, query) ==
  IF found.best_agent # NoAgent
  THEN [instances |-> got.instances,
        call |-> [NoCall EXCEPT !.op = "get_agent", !.id = found.best_agent,
                                !.ret_instance = got.ret],
        intent_analysis |->
          IntentFor(found.best_agent,
                    IF got.ret # NoInstance THEN ConfidenceTable[got.ret.cls][query]
                    ELSE RZero)]
  ELSE [instances |-> found.instances,
        call |-> [NoCall EXCEPT !.op = "find_best_agent", !.query = query],
        intent_analysis |-> IntentFor(NoAgent, RZero)]

\* analyze_intent, line 417: self.agent_registry.get_agent(best_agent_id)
AgentFound(found, classes, failing) ==
  IF found.best_agent # NoAgent
  THEN get_agent(found.instances, classes, found.best_agent, found.best_agent \notin failing)
  ELSE [ret |-> NoInstance, instances |-> found.instances]

\* RouterAgent.analyze_intent: the analysis, the registry's instances
\* afterwards and its last call
analyze_intent(metadata, classes, instances, query, failing) ==
  LET Analysis(found) == IntentOf(found, AgentFound(found, classes, failing), query)
  IN  Analysis(find_best_agent(metadata, classes, instances, query, {}, failing))

\* a fault: _route_to_agent without its except branch
_route_to_agent_uncaught(agent, result) ==
  IF agent = NoInstance THEN "tool_unavailable"
  ELSE IF result.status = "success"
  THEN IF result.mcp_available /\ result.performance_stats.mcp_calls > 0
       THEN "tool_realtime" ELSE "tool_knowledge"
  ELSE IF result.status = "error"
  THEN IF result.troubleshooting = "dict" THEN "raised" ELSE "tool_error"
  ELSE "tool_unexpected"

\* RouterAgent._route_to_agent: the text it returns, by its kind.  With an
\* error record whose troubleshooting is a non-empty dict, as the pricing
\* agent's is, troubleshooting[:3] raises and the except branch answers
_route_to_agent(agent, result) ==
  IF agent = NoInstance THEN "tool_unavailable"
  ELSE IF result.status = "success"
  THEN IF result.mcp_available /\ result.performance_stats.mcp_calls > 0
       THEN "tool_realtime" ELSE "tool_knowledge"
  ELSE IF result.status = "error"
  THEN IF result.troubleshooting = "dict" THEN "tool_exception" ELSE "tool_error"
  ELSE "tool_unexpected"

\* an entry of the router's conversation history
HistoryEntry(role, content, user_id) == [role |-> role, content |-> content, user_id |-> user_id]

\* the record RouterAgent.process_query returns from its try branch
RouterResponse(content, intent_analysis) ==
  [content |-> content, agent_type |-> "router_enhanced",
   intent_analysis |-> intent_analysis, error_handled |-> FALSE]

\* what the model of the router does with a query: the call raises; the
\* stream raises; the model answers; the model calls the pricing tool
RouterOutcomes == {"raise", "stream_error", "answer", "tool"}

\* ------------------------------------------------------------- fallbacks

\* aws_keywords of _handle_uncertain_intent
AwsKeywords ==
  << <<"a","w","s">>,
     <<"a","m","a","z","o","n">>,
     <<"e","c","2">>,
     <<"r","d","s">>,
     <<"s","3">>,
     <<"l","a","m","b","d","a">>,
     <<"c","o","s","t">>,
     <<"p","r","i","c","e">>,
     <<"p","r","i","c","i","n","g">> >>

\* a fault: the strategy hands the query to the pricing agent itself
_handle_uncertain_intent_rerouting(query, response) ==
  [response EXCEPT
     !.intent_analysis.selected_agent =
        IF ContainsAny(AwsKeywords, Lower(query)) THEN PricingAgentId ELSE @,
     !.intent_analysis.fallback_suggestion =
        IF ContainsAny(AwsKeywords, Lower(query)) THEN "aws_pricing"
        ELSE "clarification_needed",
     !.intent_analysis.fallback_applied = TRUE]

\* RouterOrchestrator._handle_uncertain_intent
_handle_uncertain_intent(query, response) ==
  [response EXCEPT
     !.intent_analysis.fallback_suggestion =
        IF ContainsAny(AwsKeywords, Lower(query)) THEN "aws_pricing"
        ELSE "clarification_needed",
     !.intent_analysis.fallback_applied = TRUE]

\* RouterOrchestrator._handle_agent_failure
_handle_agent_failure ==
  [content |-> Content("agent_failure", <<>>, FALSE, FALSE),
   agent_type |-> "orchestrator_fallback",
   intent_analysis |-> IntentAnalysis("error_fallback", "none", "high", RZero, FALSE),
   error_handled |-> TRUE]

\* RouterOrchestrator._handle_orchestration_error
_handle_orchestration_error ==
  [content |-> Content("orchestration_error", <<>>, FALSE, FALSE),
   agent_type |-> "orchestrator_error",
   intent_analysis |-> IntentAnalysis("orchestration_error", "none", "high", RZero, FALSE)]

\* 'aws_pricing_agent'
PricingAgentName ==
  <<"a","w","s","_","p","r","i","c","i","n","g","_","a","g","e","n","t">>

\* a fault: _route_query without its except branch
_route_query_uncaught(query, routed, agent_used) ==
  IF routed.raised
  THEN [raised |-> TRUE, response |-> _handle_agent_failure, last_agent_used |-> agent_used]
  ELSE [raised |-> FALSE,
        response |->
          IF routed.response.intent_analysis.confidence = "low"
          THEN _handle_uncertain_intent(query, routed.response)
          ELSE routed.response,
        last_agent_used |->
          IF routed.response.intent_analysis.intent = "aws_pricing" THEN PricingAgentName
          ELSE RouterAgentName]

\* RouterOrchestrator._route_query, from the return of router_agent.process_query
\* on: whether it raises, what it returns and last_agent_used afterwards
_route_query(query, routed, agent_used) ==
  IF routed.raised
  THEN [raised |-> FALSE, response |-> _handle_agent_failure, last_agent_used |-> agent_used]
  ELSE LET intent_analysis == routed.response.intent_analysis
       IN  [raised |-> FALSE,
            response |->
              IF intent_analysis.confidence = "low"
              THEN _handle_uncertain_intent(query, routed.response)
              ELSE routed.response,
            last_agent_used |->
              IF intent_analysis.intent = "aws_pricing" THEN PricingAgentName
              ELSE RouterAgentName]

\* ---------------------------------------------------- orchestrator calls

NoQuery ==
  [calls |-> 0, adds |-> 0, query |-> <<>>, user_id |-> NoUser, router |-> "none",
   response |-> [agent_type |-> "none"], context_summary |-> <<>>,
   summary_users |-> {}, history_users |-> {}, pricing_users |-> {}]

\* lifespan: RouterOrchestrator(), with its ConversationContext and its
\* RouterAgent, whose tools are made for the enabled agents of the registry
OrchestratorInit ==
  /\ messages = <<>>
  /\ last_agent_used = NoAgentUsed
  /\ context_summary = <<>>
  /\ session_metadata = [contains_architecture |-> FALSE]
  /\ conversation_history = <<>>
  /\ tools = {agent_metadata[i].id : i \in {j \in 1..Len(agent_metadata) :
                                              agent_metadata[j].enabled}}
  /\ added = <<>>
  /\ state_users = {}
  /\ oq = NoQuery

\* orchestration_metadata of process_query
WithMetadata(response, count, agent_used, summary) ==
  [content |-> response.content, agent_type |-> response.agent_type,
   intent_analysis |-> response.intent_analysis, error_handled |-> response.error_handled,
   orchestration_metadata |->
     [context_messages_count |-> count, current_architecture_available |-> FALSE,
      last_agent_used |-> agent_used, context_summary |-> summary]]

\* the user ids on the user messages of a list
UsersOf(list) == {list[i].user_id : i \in {j \in 1..Len(list) : list[j].role = "user"}}

\* the first lines of process_query: the user message added, the summary,
\* the enhanced query, and the history _route_query passes on
Prepared(query, user_id) ==
  LET with_user == add_message(messages, UserMessage(query, user_id), Len(added) + 1)
      summary == get_context_summary(with_user, last_agent_used)
  IN  [messages |-> with_user,
       now |-> Len(added) + 1,
       context_summary |-> summary,
       summary_users |-> UsersOf(QuotedMessages(with_user)),
       enhanced_query |-> _enhance_query_with_context(query, summary),
       history |-> get_relevant_context(with_user, RelevantMessages)]

\* the ids whose class cannot be constructed during a call
Failing(constructs) ==
  IF constructs THEN {}
  ELSE {a \in AgentIds : agent_instances[a] = NoInstance /\ agents[a] # NoClass}

\* RouterAgent.process_query up to the answer: response_content
ResponseContent(router, architecture, intent_analysis, agent, result) ==
  IF router = "stream_error" THEN Content("agent_error", <<>>, FALSE, FALSE)
  ELSE IF router = "tool"
  THEN Content(_route_to_agent(agent, result), <<>>, intent_analysis.fallback_to_general, FALSE)
  ELSE Content("answer", <<>>, intent_analysis.fallback_to_general, architecture)

\* RouterAgent.process_query, seen from _route_query: it raises, or returns
\* its record and leaves its conversation history
Routed(router, enhanced_query, history, intent_analysis, response_content) ==
  IF router = "raise" THEN [raised |-> TRUE, conversation_history |-> conversation_history]
  ELSE [raised |-> FALSE,
        response |-> RouterResponse(response_content, intent_analysis),
        conversation_history |->
          Last((IF history # <<>> THEN Last(history, max_history_length)
                ELSE conversation_history)
               \o <<HistoryEntry("user", Content("query", enhanced_query, FALSE, FALSE), NoUser),
                    HistoryEntry("assistant", response_content, NoUser)>>,
               max_history_length)]

\* the rest of process_query, from the return of _route_query on
Finish(call, prepared, route) ==
  IF route.raised
  THEN \* the except branch of process_query
       /\ messages' = prepared.messages
       /\ added' = Append(added, [UserMessage(call.query, call.user_id)
                                    EXCEPT !.timestamp = prepared.now])
       /\ oq' = [call EXCEPT !.response = _handle_orchestration_error]
       /\ UNCHANGED <<last_agent_used, session_metadata, context_summary>>
  ELSE LET assistant_message == AssistantMessage(route.response)
           with_assistant == add_message(prepared.messages, assistant_message,
                                         prepared.now + 1)
       IN  /\ messages' = with_assistant
           /\ added' = added \o <<[UserMessage(call.query, call.user_id)
                                     EXCEPT !.timestamp = prepared.now],
                                  [assistant_message EXCEPT !.timestamp = prepared.now + 1]>>
           /\ last_agent_used' = route.last_agent_used
           /\ session_metadata' =
                IF route.response.content.architecture
                THEN [session_metadata EXCEPT !.contains_architecture = TRUE]
                ELSE session_metadata
           /\ context_summary' =
                IF Len(with_assistant) % 5 = 0
                THEN get_context_summary(with_assistant, route.last_agent_used)
                ELSE context_summary
           /\ oq' = [call EXCEPT !.response =
                       WithMetadata(route.response, Len(with_assistant),
                                    route.last_agent_used, prepared.context_summary)]

\* the call of the router: the registry is asked, the pricing tool runs if
\* the model calls it, the router answers
Route(router, architecture, constructs, fail, text, fallback_ok, call, prepared, analysed, tool_agent) ==
  /\ constructs \/ Failing(constructs) # {}
  /\ router = "tool" => PricingAgentId \in tools
  /\ router # "answer" => ~architecture
  /\ IF router = "tool" /\ tool_agent.ret # NoInstance
     THEN /\ ProcessPricingQuery(call.query, fail, text, fallback_ok)
          /\ state_users' =
               IF pq'.result.status = "success" /\ ~pq'.result.cached
               THEN state_users \cup {call.user_id} ELSE state_users
     ELSE /\ fail = "none" /\ text = PlainText /\ fallback_ok
          /\ UNCHANGED pricingVars
          /\ UNCHANGED state_users
  /\ IF router = "raise" THEN UNCHANGED <<agent_instances, reg>>
     ELSE IF router = "tool"
     THEN /\ agent_instances' = tool_agent.instances
          /\ reg' = [NoCall EXCEPT !.op = "get_agent", !.id = PricingAgentId,
                                   !.ret_instance = tool_agent.ret]
     ELSE /\ agent_instances' = analysed.instances
          /\ reg' = analysed.call
  /\ \E response_content \in {ResponseContent(router, architecture, analysed.intent_analysis,
                                               tool_agent.ret, pq'.result)} :
     \E routed \in {Routed(router, prepared.enhanced_query, prepared.history,
                           analysed.intent_analysis, response_content)} :
     \E route \in {_route_query(prepared.enhanced_query, routed, last_agent_used)} :
     \E used \in {[call EXCEPT !.pricing_users =
                      IF /\ router = "tool" /\ tool_agent.ret # NoInstance
                         /\ \/ pq'.context_block
                            \/ pq'.result.status = "success" /\ pq'.result.cached
                      THEN state_users ELSE {}]} :
        /\ conversation_history' = routed.conversation_history
        /\ Finish(used, prepared, route)
  /\ UNCHANGED <<agents, agent_metadata, disabled_by_call, disabled_held, tools>>

\* the record of a call, before its response is known
Call(query, user_id, router, prepared) ==
  [calls |-> oq.calls + 1, adds |-> oq.adds, query |-> query, user_id |-> user_id,
   router |-> router, response |-> [agent_type |-> "none"],
   context_summary |-> prepared.context_summary,
   summary_users |-> prepared.summary_users,
   history_users |-> UsersOf(prepared.history),
   pricing_users |-> {}]

\* RouterOrchestrator.process_query(query, user_id).  router: what the router
\* does; architecture: the model's answer mentions an architecture;
\* constructs: the constructors of the agent classes do not raise; fail, text,
\* fallback_ok: as for process_pricing_query, when the pricing tool is called
ProcessQuery(query, user_id, router, architecture, constructs, fail, text, fallback_ok) ==
  \E prepared \in {Prepared(query, user_id)} :
  \E call \in {Call(query, user_id, router, prepared)} :
  \E analysed \in {IF router = "raise"
                   THEN [instances |-> agent_instances, call |-> reg,
                         intent_analysis |-> NoIntent]
                   ELSE analyze_intent(agent_metadata, agents, agent_instances,
                                       prepared.enhanced_query, Failing(constructs))} :
  \E tool_agent \in {get_agent(analysed.instances, agents, PricingAgentId, constructs)} :
     Route(router, architecture, constructs, fail, text, fallback_ok, call, prepared,
           analysed, tool_agent)

\* router_chat of the API server: every request, whatever its user_id, goes
\* to the one orchestrator
RouterChat(message, user_id, router, architecture, constructs, fail, text, fallback_ok) ==
  ProcessQuery(message, user_id, router, architecture, constructs, fail, text, fallback_ok)

\* RouterOrchestrator.reset_conversation_context
ResetConversationContext ==
  /\ messages' = <<>>
  /\ last_agent_used' = NoAgentUsed
  /\ context_summary' = <<>>
  /\ session_metadata' = [contains_architecture |-> FALSE]
  /\ added' = <<>>
  /\ oq' = [oq EXCEPT !.router = "none"]
  /\ UNCHANGED <<conversation_history, tools, state_users>>

\* ConversationContext.add_message(message), called on the context directly
AddMessage(message) ==
  /\ messages' = add_message(messages, message, Len(added) + 1)
  /\ added' = Append(added, [message EXCEPT !.timestamp = Len(added) + 1])
  /\ oq' = [oq EXCEPT !.adds = @ + 1]
  /\ UNCHANGED <<last_agent_used, context_summary, session_metadata, conversation_history,
                 tools, state_users>>

\* ------------------------------------------------ scoring, agent by agent

VARIABLE
  scoring   \* one agent asked for its confidence: what its get_capabilities()
            \* returns, the query, and the value get_confidence_score returned
            \* (NoScore before the call)

scoreVars == <<scoring>>

NoScore == [n |-> -1, d |-> 1]

\* the longest capability list an agent of this part has
MaxCapabilities == 2

\* one keyword, no phrase, priority 5, confidence_threshold 0.6
CostCapability ==
  AgentCapability("cost", << <<"c","o","s","t">> >>, << >>, 5, R(6, 10))

\* two keywords, no phrase, priority 2
MinorCapability ==
  AgentCapability("minor", << <<"c","o","s","t">>, <<"h","i","g","h">> >>, << >>, 2, R(5, 10))

\* one keyword and one phrase, priority 10
StrongCapability ==
  AgentCapability("strong", << <<"c","o","s","t">> >>, << <<"t","h","e"," ","c","o","s","t">> >>, 10, R(5, 10))

\* neither keywords nor phrases
SilentCapability ==
  AgentCapability("silent", << >>, << >>, 5, R(5, 10))

CapabilityPool ==
  {CostCapability, MinorCapability, StrongCapability, SilentCapability,
   SecurityReviewCapabilities[1], AuditCapabilities[1]}

CapabilityLists == UNION {[1..n -> CapabilityPool] : n \in 0..MaxCapabilities}

TheCostIsHigh ==
  <<"T","h","e"," ","C","O","S","T"," ","i","s"," ","h","i","g","h">>
AuditTheCost ==
  <<"a","u","d","i","t"," ","t","h","e"," ","c","o","s","t">>
ScoreQueries == {TheCostIsHigh, AuditTheCost, HelloQuery, SecurityQuery}

\* no agent has been asked
ScoreIdle == scoring = [capabilities |-> << >>, query |-> << >>, score |-> NoScore]

\* an agent with some capability list, about to be asked about some query
ScoreInit ==
  scoring \in {[capabilities |-> c, query |-> q, score |-> NoScore] :
                 c \in CapabilityLists, q \in ScoreQueries}

\* agent.get_confidence_score(query)
GetConfidenceScore ==
  /\ scoring.score = NoScore
  /\ scoring' = [scoring EXCEPT !.score = get_confidence_score(scoring.capabilities, scoring.query)]

\* ------------------------------------ get_agent, statement by statement

VARIABLE
  get_calls   \* the get_agent calls in progress, one per caller: where the
              \* caller is, its agent_id, the instance it constructed, what it
              \* returned; and the number of instances constructed so far

callVars == <<get_calls>>

\* the callers that share the registry, and the calls each of them makes
MaxCallers == 2
MaxCallsEach == 2
Callers == 1..MaxCallers

\* the ids asked for: one with a class, one without
CalledIds == {"aws_pricing", "security"}

NoGetCall ==
  [pc |-> "idle", id |-> NoAgent, made |-> NoInstance, ret |-> NoInstance,
   quiet |-> FALSE, seen |-> NoInstance, count |-> 0]

CallersIdle == get_calls = [by |-> [c \in Callers |-> NoGetCall], constructed |-> 0]

\* no call is between its first and its last statement, but for except's
Quiescent(by, except) == \A c \in Callers \ except : by[c].pc \in {"idle", "done"}

\* a fault: the constructed instance returned and not stored
StoreNothing(instances, agent_id, agent_instance) == instances

\* "self.agent_instances[agent_id] = agent_instance"
StoreInstance(instances, agent_id, agent_instance) ==
  [instances EXCEPT ![agent_id] = agent_instance]

\* the call: get_agent(agent_id) entered
BeginGetAgent(c, agent_id) ==
  /\ get_calls.by[c].pc \in {"idle", "done"}
  /\ get_calls.by[c].count < MaxCallsEach
  /\ get_calls' =
       [get_calls EXCEPT !.by[c] =
          [NoGetCall EXCEPT !.pc = "lookup", !.id = agent_id,
                            !.quiet = Quiescent(get_calls.by, {c}),
                            !.seen = agent_instances[agent_id],
                            !.count = get_calls.by[c].count + 1]]
  /\ UNCHANGED regVars

\* "if agent_id in self.agent_instances: return ...", "if agent_id in
\* self.agents:", and the final "return None"
LookupInstance(c) ==
  /\ get_calls.by[c].pc = "lookup"
  /\ get_calls' =
       [get_calls EXCEPT !.by[c] =
          IF agent_instances[get_calls.by[c].id] # NoInstance
          THEN [@ EXCEPT !.pc = "done", !.ret = agent_instances[get_calls.by[c].id]]
          ELSE IF agents[get_calls.by[c].id] # NoClass THEN [@ EXCEPT !.pc = "construct"]
          ELSE [@ EXCEPT !.pc = "done", !.ret = NoInstance]]
  /\ UNCHANGED regVars

\* "agent_instance = self.agents[agent_id](agent_config)": a new object, or
\* the constructor raises and the except branch returns None
ConstructInstance(c, constructs) ==
  /\ get_calls.by[c].pc = "construct"
  /\ get_calls' =
       IF constructs
       THEN [get_calls EXCEPT
               !.by[c] = [@ EXCEPT !.pc = "store",
                                   !.made = [cls |-> agents[get_calls.by[c].id],
                                             gen |-> get_calls.constructed + 1]],
               !.constructed = @ + 1]
       ELSE [get_calls EXCEPT !.by[c] = [@ EXCEPT !.pc = "done", !.ret = NoInstance]]
  /\ UNCHANGED regVars

\* "self.agent_instances[agent_id] = agent_instance; return agent_instance"
StoreAndReturn(c) ==
  /\ get_calls.by[c].pc = "store"
  /\ agent_instances' =
       StoreInstance(agent_instances, get_calls.by[c].id, get_calls.by[c].made)
  /\ get_calls' =
       [get_calls EXCEPT !.by[c] = [@ EXCEPT !.pc = "done", !.ret = get_calls.by[c].made]]
  /\ UNCHANGED <<agents, agent_metadata, disabled_by_call, disabled_held, reg>>

\* ------------------------------------ agents built from AIFirstAgentTemplate

VARIABLE
  template    \* one AIFirstAgentTemplate agent (a SecurityAgent, or an agent
              \* the factory made): has_client for "self.mcp_client is not
              \* None", agent for self.agent, query_cache, the counters of
              \* performance_stats, and the last process_query call with the
              \* model calls it made

templateVars == <<template>>

\* the largest number of process_query calls of the agent in a behaviour
MaxTemplateCalls == 4

TemplateQueries == {SecurityQuery, CostQuery, CostQueryPadded}

\* where the call fails: nowhere; while self.agent is created (the outer
\* except answers); in self.agent.stream_async (the inner except answers)
TemplateFailures == {"none", "setup", "stream"}

\* self.agent before the first query
NoTemplateAgent == "none"

NoTemplateCall ==
  [query |-> <<>>, fail |-> "none", invoked |-> <<>>, result |-> [status |-> "none"]]

\* AIFirstAgentTemplate.__init__
TemplateInit ==
  \E has_client \in BOOLEAN :
    template = [has_client |-> has_client, agent |-> NoTemplateAgent, query_cache |-> {},
                total_queries |-> 0, cache_hits |-> 0, call |-> NoTemplateCall]

\* the model calls of one process_query: self.agent.stream_async(query), once
TemplateInvocations(agent, fail) == <<agent>>

\* "if self.mcp_client: self.agent = Agent(..., tools=self._get_mcp_tools())
\* else: self.agent = self._create_fallback_agent()", done once
TemplateAgent(agent, has_client) ==
  IF agent # NoTemplateAgent THEN agent
  ELSE IF has_client THEN "tools" ELSE "fallback"

\* the dictionary of the success branch
TemplateSuccess(has_client) ==
  [status |-> "success", mcp_available |-> has_client,
   confidence |-> IF has_client THEN "high" ELSE "medium", cached |-> FALSE]

\* the dictionary of the inner except branch, and of the outer one
TemplateError(has_client, fail) ==
  IF fail = "stream" THEN [status |-> "error", mcp_available |-> has_client, troubleshooting |-> "list"]
  ELSE [status |-> "error"]

\* the entries of query_cache under a key
TemplateCached(cache, key) == {e \in cache : e.key = key}

\* AIFirstAgentTemplate.process_query(query)
TemplateProcessQuery(query, fail) ==
  /\ template.total_queries < MaxTemplateCalls
  /\ \E key \in {QueryFacts[query].key}, hit \in {TemplateCached(template.query_cache, QueryFacts[query].key)} :
       IF hit # {}
       THEN /\ fail = "none"
            /\ template' =
                 [template EXCEPT
                    !.total_queries = @ + 1,
                    !.cache_hits = @ + 1,
                    !.call = [query |-> query, fail |-> fail, invoked |-> <<>>,
                              result |-> [(CHOOSE e \in hit : TRUE).result EXCEPT !.cached = TRUE]]]
       ELSE IF fail = "setup"
       THEN /\ template.agent = NoTemplateAgent
            /\ template' =
                 [template EXCEPT
                    !.total_queries = @ + 1,
                    !.call = [query |-> query, fail |-> fail, invoked |-> <<>>,
                              result |-> TemplateError(template.has_client, fail)]]
       ELSE \E agent \in {TemplateAgent(template.agent, template.has_client)} :
              \E invoked \in {TemplateInvocations(agent, fail)} :
                IF fail = "stream"
                THEN template' =
                       [template EXCEPT
                          !.total_queries = @ + 1,
                          !.agent = agent,
                          !.call = [query |-> query, fail |-> fail, invoked |-> invoked,
                                    result |-> TemplateError(template.has_client, fail)]]
                ELSE template' =
                       [template EXCEPT
                          !.total_queries = @ + 1,
                          !.agent = agent,
                          !.query_cache =
                             IF Cardinality(@) < CacheLimit
                             THEN @ \cup {[key |-> key, result |-> TemplateSuccess(template.has_client)]}
                             ELSE @,
                          !.call = [query |-> query, fail |-> fail, invoked |-> invoked,
                                    result |-> TemplateSuccess(template.has_client)]]

TemplateIdle ==
  template = [has_client |-> TRUE, agent |-> NoTemplateAgent, query_cache |-> {},
              total_queries |-> 0, cache_hits |-> 0, call |-> NoTemplateCall]

\* ------------------------------------ routing on a given score

VARIABLE
  hint    \* one routing of a query for which the registry found best_agent
          \* (or none) and the agent gave score: the query, the record
          \* RouterAgent.process_query returned, and what _route_query
          \* returned

hintVars == <<hint>>

\* the scores an agent may give for a query it is selected for, on both
\* sides of the bucket limits
AgentScores == {R(3, 10), R(39, 100), R(4, 10), R(69, 100), R(7, 10), R(1, 1)}

\* the queries _route_query receives for a first question
FirstQueries ==
  { _enhance_query_with_context(q, SummaryText(NoAgentUsed, <<Take(q, 100)>>)) : q \in RoutedQueries }

NoResponse == [agent_type |-> "none"]

HintIdle ==
  hint = [stage |-> "idle", query |-> <<>>, best_agent |-> NoAgent, score |-> RZero,
          routed |-> NoResponse, returned |-> NoResponse, last_agent_used |-> NoAgentUsed]

\* a query, the agent find_best_agent returns for it and that agent's score
HintInit ==
  \E query \in FirstQueries, best_agent \in AgentIds \cup {NoAgent}, score \in AgentScores \cup {RZero} :
    /\ (best_agent = NoAgent) = (score = RZero)
    /\ hint = [stage |-> "found", query |-> query, best_agent |-> best_agent, score |-> score,
               routed |-> NoResponse, returned |-> NoResponse, last_agent_used |-> NoAgentUsed]

\* RouterAgent.process_query: analyze_intent, the model's answer, the record
AnalyzeAndAnswer ==
  /\ hint.stage = "found"
  /\ hint' = [hint EXCEPT
                !.stage = "analysed",
                !.routed =
                   RouterResponse(Content("answer", <<>>, hint.best_agent = NoAgent, FALSE),
                                  IntentFor(hint.best_agent, hint.score))]

\* RouterOrchestrator._route_query after the router's return
RouteAnalysed ==
  /\ hint.stage = "analysed"
  /\ \E route \in {_route_query(hint.query, [raised |-> FALSE, response |-> hint.routed], NoAgentUsed)} :
       hint' = [hint EXCEPT !.stage = "routed", !.returned = route.response,
                            !.last_agent_used = route.last_agent_used]

\* -------------------------------------------------------- specifications

vars == <<regVars, pricingVars, orchVars, scoreVars, callVars, templateVars, hintVars>>

\* the registry with the built-in agent's metadata harvested, nothing called yet
RegistryIdle == RegistryInit /\ agent_metadata # <<>>

\* the pricing agent constructed with its client, nothing asked yet
PricingIdle == PricingInit /\ mcp_client

\* the largest number of process_query calls in a behaviour
MaxTurns == 2

\* where the pricing tool fails when the router's model calls it
ToolStages == {"none", "tool_timeout"}

\* the requests to the API server, and the reset
Next ==
  \/ /\ oq.calls < MaxTurns
     /\ \E message \in RouterQueries, user_id \in Users,
           router \in RouterOutcomes \ {"tool"}, architecture \in BOOLEAN,
           constructs \in BOOLEAN :
          RouterChat(message, user_id, router, architecture, constructs, "none", PlainText,
                     TRUE)
     /\ UNCHANGED <<scoreVars, callVars, templateVars, hintVars>>
  \/ /\ oq.calls < MaxTurns
     /\ \E message \in RouterQueries, user_id \in Users, constructs \in BOOLEAN,
           fail \in ToolStages, fallback_ok \in BOOLEAN :
          RouterChat(message, user_id, "tool", FALSE, constructs, fail, PlainText,
                     fallback_ok)
     /\ UNCHANGED <<scoreVars, callVars, templateVars, hintVars>>
  \/ /\ messages # <<>>
     /\ ResetConversationContext
     /\ UNCHANGED <<regVars, pricingVars, scoreVars, callVars, templateVars, hintVars>>

Init == RegistryInit /\ PricingInit /\ OrchestratorInit /\ ScoreIdle /\ CallersIdle /\ TemplateIdle /\ HintIdle

\* the server: one orchestrator, one router, one registry, one pricing agent
Spec == Init /\ [][Next]_vars

\* the largest numbers of process_query calls and of direct add_message calls
\* in a long run
MaxLongTurns == 11
MaxDirectAdds == 2

\* a long run of one session whose router calls raise, and messages added to
\* the context directly
LongNext ==
  \/ /\ oq.calls < MaxLongTurns
     /\ ProcessQuery(HelloQuery, "alice", "raise", FALSE, TRUE, "none", PlainText, TRUE)
     /\ UNCHANGED <<scoreVars, callVars, templateVars, hintVars>>
  \/ /\ oq.adds < MaxDirectAdds
     /\ \E message \in {UserMessage(CostQuery, "bob"), AssistantMessage(_handle_agent_failure)} :
          AddMessage(message)
     /\ UNCHANGED <<regVars, pricingVars, scoreVars, callVars, templateVars, hintVars>>

InitLong == RegistryIdle /\ PricingIdle /\ OrchestratorInit /\ ScoreIdle /\ CallersIdle /\ TemplateIdle /\ HintIdle
SpecLong == InitLong /\ [][LongNext]_vars

\* the calls on the registry
RegistryNext ==
  \/ \E pair \in RegistrableClasses, harvested \in BOOLEAN :
        RegisterAgentClass(pair[1], pair[2], harvested) /\ UNCHANGED <<pricingVars, orchVars, scoreVars, callVars, templateVars, hintVars>>
  \/ \E pair \in RegistrableInstances :
        RegisterAgentInstance(pair[1], pair[2]) /\ UNCHANGED <<pricingVars, orchVars, scoreVars, callVars, templateVars, hintVars>>
  \/ \E a \in AgentIds, constructs \in BOOLEAN :
        GetAgent(a, constructs) /\ UNCHANGED <<pricingVars, orchVars, scoreVars, callVars, templateVars, hintVars>>
  \/ \E q \in RegistryQueries, exclude_agents \in AtMostOne, failing \in AtMostOne :
        FindBestAgent(q, exclude_agents, failing) /\ UNCHANGED <<pricingVars, orchVars, scoreVars, callVars, templateVars, hintVars>>
  \/ \E a \in AgentIds : EnableAgent(a) /\ UNCHANGED <<pricingVars, orchVars, scoreVars, callVars, templateVars, hintVars>>
  \/ \E a \in AgentIds : DisableAgent(a) /\ UNCHANGED <<pricingVars, orchVars, scoreVars, callVars, templateVars, hintVars>>
  \/ GetAgentStatus /\ UNCHANGED <<pricingVars, orchVars, scoreVars, callVars, templateVars, hintVars>>

\* the registry alone
InitRegistry == RegistryInit /\ PricingIdle /\ OrchestratorInit /\ ScoreIdle /\ CallersIdle /\ TemplateIdle /\ HintIdle
SpecRegistry == InitRegistry /\ [][RegistryNext]_vars

\* the calls on the pricing agent, with every outcome of the tiers
PricingNext ==
  /\ performance_stats.total_queries < MaxPricingCalls
  /\ \E query \in PricingQueries, fail \in Stages, text \in Texts, fallback_ok \in BOOLEAN :
        ProcessPricingQuery(query, fail, text, fallback_ok)
  /\ UNCHANGED <<regVars, orchVars, scoreVars, callVars, templateVars, hintVars>>

\* the pricing agent alone
InitPricing == PricingInit /\ RegistryIdle /\ OrchestratorInit /\ ScoreIdle /\ CallersIdle /\ TemplateIdle /\ HintIdle
SpecPricing == InitPricing /\ [][PricingNext]_vars

\* a long run: a new query, or the last one again
CacheNext ==
  \/ NewQuery /\ UNCHANGED <<regVars, orchVars, scoreVars, callVars, templateVars, hintVars>>
  \/ RepeatQuery /\ UNCHANGED <<regVars, orchVars, scoreVars, callVars, templateVars, hintVars>>

\* the pricing agent over a long run of queries that the tools answer
InitCache == PricingIdle /\ RegistryIdle /\ OrchestratorInit /\ ScoreIdle /\ CallersIdle /\ TemplateIdle /\ HintIdle
SpecCache == InitCache /\ [][CacheNext]_vars


\* ------------------------------------- a conversation with the pricing agent

\* the largest number of turns of the conversation
MaxTurnCalls == 4

\* process_pricing_query: the tools and the models answer, or the tool call
\* times out and the knowledge-only agent answers or raises
TurnsNext ==
  \/ /\ performance_stats.total_queries < MaxTurnCalls
     /\ \E query \in TurnQueries, text \in TurnTexts :
           ProcessPricingQuery(query, "none", text, TRUE)
     /\ UNCHANGED <<regVars, orchVars, scoreVars, callVars, templateVars, hintVars>>
  \/ /\ performance_stats.total_queries < MaxTurnCalls
     /\ \E query \in TurnQueries, fallback_ok \in BOOLEAN :
           ProcessPricingQuery(query, "tool_timeout", PlainText, fallback_ok)
     /\ UNCHANGED <<regVars, orchVars, scoreVars, callVars, templateVars, hintVars>>

InitTurns == PricingIdle /\ RegistryIdle /\ OrchestratorInit /\ ScoreIdle /\ CallersIdle /\ TemplateIdle /\ HintIdle
SpecTurns == InitTurns /\ [][TurnsNext]_vars

\* ------------------------------------------------- a long run of scenarios

\* the next query of the run: a scenario, answered with or without figures,
\* or a pricing query
ScenarioNext ==
  \/ /\ performance_stats.total_queries < MaxScenarioCalls
     /\ \E text \in {PlainText, CostedText} :
           ProcessPricingQuery(NumberedScenario(performance_stats.total_queries + 1),
                               "none", text, TRUE)
     /\ UNCHANGED <<regVars, orchVars, scoreVars, callVars, templateVars, hintVars>>
  \/ /\ performance_stats.total_queries < MaxScenarioCalls
     /\ ProcessPricingQuery(NumberedQuery(performance_stats.total_queries + 1),
                            "none", PlainText, TRUE)
     /\ UNCHANGED <<regVars, orchVars, scoreVars, callVars, templateVars, hintVars>>

InitScenario == PricingIdle /\ RegistryIdle /\ OrchestratorInit /\ ScoreIdle /\ CallersIdle /\ TemplateIdle /\ HintIdle
SpecScenario == InitScenario /\ [][ScenarioNext]_vars

\* ------------------------------------------------ one agent, one query

ScoreNext ==
  GetConfidenceScore /\ UNCHANGED <<regVars, pricingVars, orchVars, callVars, templateVars, hintVars>>

InitScore == ScoreInit /\ RegistryIdle /\ PricingIdle /\ OrchestratorInit /\ CallersIdle /\ TemplateIdle /\ HintIdle
SpecScore == InitScore /\ [][ScoreNext]_vars

\* ------------------------------------- agents with a threshold of zero

\* the instances a caller registers, among them a factory-made agent
\* whose threshold is 0.0
OpenInstances == { <<"security", "HelpDeskAgent">>, <<"audit", "AuditAgent">> }

ThresholdNext ==
  \/ \E pair \in OpenInstances :
        RegisterAgentInstance(pair[1], pair[2]) /\ UNCHANGED <<pricingVars, orchVars, scoreVars, callVars, templateVars, hintVars>>
  \/ \E q \in RegistryQueries, exclude_agents \in AtMostOne, failing \in AtMostOne :
        FindBestAgent(q, exclude_agents, failing) /\ UNCHANGED <<pricingVars, orchVars, scoreVars, callVars, templateVars, hintVars>>
  \/ \E a \in AgentIds : EnableAgent(a) /\ UNCHANGED <<pricingVars, orchVars, scoreVars, callVars, templateVars, hintVars>>
  \/ \E a \in AgentIds : DisableAgent(a) /\ UNCHANGED <<pricingVars, orchVars, scoreVars, callVars, templateVars, hintVars>>

InitThreshold == RegistryInit /\ PricingIdle /\ OrchestratorInit /\ ScoreIdle /\ CallersIdle /\ TemplateIdle /\ HintIdle
SpecThreshold == InitThreshold /\ [][ThresholdNext]_vars

\* ------------------------------- the registry changing under the router

\* requests to the router, and agents registered, enabled and disabled in
\* the registry it was built on
ToolsNext ==
  \/ /\ oq.calls < MaxTurns
     /\ \E message \in ToolsQueries, router \in {"answer", "tool"} :
          RouterChat(message, "alice", router, FALSE, TRUE, "none", PlainText, TRUE)
     /\ UNCHANGED <<scoreVars, callVars, templateVars, hintVars>>
  \/ \E pair \in RegistrableInstances \cup OpenInstances :
        RegisterAgentInstance(pair[1], pair[2]) /\ UNCHANGED <<pricingVars, orchVars, scoreVars, callVars, templateVars, hintVars>>
  \/ \E a \in AgentIds : EnableAgent(a) /\ UNCHANGED <<pricingVars, orchVars, scoreVars, callVars, templateVars, hintVars>>
  \/ \E a \in AgentIds : DisableAgent(a) /\ UNCHANGED <<pricingVars, orchVars, scoreVars, callVars, templateVars, hintVars>>

InitTools == RegistryInit /\ PricingIdle /\ OrchestratorInit /\ ScoreIdle /\ CallersIdle /\ TemplateIdle /\ HintIdle
SpecTools == InitTools /\ [][ToolsNext]_vars

\* ------------------------------------ callers sharing the registry

\* get_agent calls of several callers, interleaved statement by statement
ConcurrentNext ==
  \/ \E c \in Callers, a \in CalledIds :
        BeginGetAgent(c, a) /\ UNCHANGED <<pricingVars, orchVars, scoreVars, templateVars, hintVars>>
  \/ \E c \in Callers :
        LookupInstance(c) /\ UNCHANGED <<pricingVars, orchVars, scoreVars, templateVars, hintVars>>
  \/ \E c \in Callers, constructs \in BOOLEAN :
        ConstructInstance(c, constructs) /\ UNCHANGED <<pricingVars, orchVars, scoreVars, templateVars, hintVars>>
  \/ \E c \in Callers :
        StoreAndReturn(c) /\ UNCHANGED <<pricingVars, orchVars, scoreVars, templateVars, hintVars>>

InitConcurrent == RegistryInit /\ PricingIdle /\ OrchestratorInit /\ ScoreIdle /\ CallersIdle /\ TemplateIdle /\ HintIdle
SpecConcurrent == InitConcurrent /\ [][ConcurrentNext]_vars

\* ------------------------------------ an agent made from the template

TemplateNext ==
  \E query \in TemplateQueries, fail \in TemplateFailures :
    TemplateProcessQuery(query, fail)
      /\ UNCHANGED <<regVars, pricingVars, orchVars, scoreVars, callVars, hintVars>>

InitTemplate == TemplateInit /\ RegistryIdle /\ PricingIdle /\ OrchestratorInit /\ ScoreIdle /\ CallersIdle /\ HintIdle
SpecTemplate == InitTemplate /\ [][TemplateNext]_vars

\* ------------------------------------ queries of every class

\* the largest number of calls in a run over the classes
MaxClassifiedCalls == 3

\* process_pricing_query on queries of the classes, the tools answering
ClassifiedNext ==
  /\ performance_stats.total_queries < MaxClassifiedCalls
  /\ \E query \in ClassifiedQueries, text \in {PlainText, CostedText} :
        ProcessPricingQuery(query, "none", text, TRUE)
  /\ UNCHANGED <<regVars, orchVars, scoreVars, callVars, templateVars, hintVars>>

InitClassified == PricingIdle /\ RegistryIdle /\ OrchestratorInit /\ ScoreIdle /\ CallersIdle /\ TemplateIdle /\ HintIdle
SpecClassified == InitClassified /\ [][ClassifiedNext]_vars

\* ------------------------------------ one query routed on a given score

HintNext ==
  \/ AnalyzeAndAnswer /\ UNCHANGED <<regVars, pricingVars, orchVars, scoreVars, callVars, templateVars>>
  \/ RouteAnalysed /\ UNCHANGED <<regVars, pricingVars, orchVars, scoreVars, callVars, templateVars>>

InitHint == HintInit /\ RegistryIdle /\ PricingIdle /\ OrchestratorInit /\ ScoreIdle /\ CallersIdle /\ TemplateIdle
SpecHint == InitHint /\ [][HintNext]_vars
\* ------------------------------------------------- claims on the registry

\* the calls that look agents up or toggle them, and register nothing
LookupOps == {"get_agent", "find_best_agent", "enable_agent", "disable_agent",
              "get_agent_status"}

\* C5: once an instance is cached for an id, get_agent, find_best_agent,
\* enable_agent, disable_agent and get_agent_status leave it in place, and a
\* get_agent(id) among them returns that very instance.
C5_InstanceReused ==
  [][ reg'.op \in LookupOps =>
        \A a \in AgentIds :
           agent_instances[a] # NoInstance =>
              /\ agent_instances'[a] = agent_instances[a]
              /\ (reg'.op = "get_agent" /\ reg'.id = a) =>
                    reg'.ret_instance = agent_instances[a] ]_vars

\* a get_agent("audit") that returned the instance built from the class the id
\* had before it was registered again with another class
C5_Witness ==
  /\ reg.op = "get_agent" /\ reg.id = "audit"
  /\ reg.ret_instance # NoInstance
  /\ reg.ret_instance = agent_instances["audit"]
  /\ reg.ret_instance.cls # agents["audit"]

\* the metadata of a registered id
EntryOf(agent_id) == agent_metadata[MetaIndex(agent_metadata, agent_id)]

\* after a find_best_agent call: the confidence and the weighted score the call
\* computed for the i-th entry, whose instance is in the cache
EntryConfidence(i) == ConfidenceTable[agent_instances[agent_metadata[i].id].cls][reg.query]
EntryWeighted(i) ==
  WeightedScore(EntryConfidence(i), ClassCapabilities(agent_metadata[i].cls))

\* after a find_best_agent call: the i-th entry was scored, not skipped
EntryScored(i) ==
  /\ agent_metadata[i].enabled
  /\ agent_metadata[i].id \notin reg.exclude
  /\ agent_instances[agent_metadata[i].id] # NoInstance

\* after a find_best_agent call: the i-th entry was scored and met its threshold
EntryPasses(i) ==
  /\ EntryScored(i)
  /\ ~RLess(EntryConfidence(i), MinThreshold(ClassCapabilities(agent_metadata[i].cls)))

\* C6: the agent find_best_agent returns has a confidence for the query that is
\* not below the least confidence_threshold of its capabilities.
C6_ThresholdRespected ==
  (reg.op = "find_best_agent" /\ reg.ret_agent # NoAgent) =>
     LET i == MetaIndex(agent_metadata, reg.ret_agent)
     IN  /\ i # 0
         /\ ~RLess(EntryConfidence(i),
                   MinThreshold(ClassCapabilities(agent_metadata[i].cls)))

\* find_best_agent passed over an agent below its threshold whose weighted
\* score is greater than the one of the agent it returned
C6_Witness ==
  /\ reg.op = "find_best_agent" /\ reg.ret_agent # NoAgent
  /\ \E i \in 1..Len(agent_metadata) :
        /\ EntryScored(i)
        /\ RLess(EntryConfidence(i), MinThreshold(ClassCapabilities(agent_metadata[i].cls)))
        /\ RLess(EntryWeighted(MetaIndex(agent_metadata, reg.ret_agent)), EntryWeighted(i))

C8_FirstOfEqual ==
  (reg.op = "find_best_agent" /\ reg.ret_agent # NoAgent) =>
     LET r == MetaIndex(agent_metadata, reg.ret_agent)
     IN  /\ r # 0
         /\ EntryPasses(r)
         /\ \A i \in 1..Len(agent_metadata) :
               EntryPasses(i) => /\ i < r => RLess(EntryWeighted(i), EntryWeighted(r))
                                 /\ i > r => RLeq(EntryWeighted(i), EntryWeighted(r))

\* two scored agents with exactly equal weighted scores, the first of them returned
C8_Witness ==
  /\ reg.op = "find_best_agent" /\ reg.ret_agent # NoAgent
  /\ \E i \in 1..Len(agent_metadata) :
        /\ i > MetaIndex(agent_metadata, reg.ret_agent)
        /\ EntryPasses(i)
        /\ EntryWeighted(i) = EntryWeighted(MetaIndex(agent_metadata, reg.ret_agent))

\* after a find_best_agent call: the i-th entry is an agent with the capability
\* (["security"], ["security review"], 9, 0.7), enabled, not excluded, constructed
SecurityReviewEntry(i) ==
  /\ EntryScored(i)
  /\ agent_metadata[i].cls = "SecurityReviewAgent"
  /\ agent_instances[agent_metadata[i].id].cls = "SecurityReviewAgent"

\* C9: with the pricing agent registered, once an agent with the capability
\* (["security"], ["security review"], 9, 0.7) is registered, enabled and
\* constructed, find_best_agent("please do a security review of my setup")
\* returns an agent constructed from that class and not the pricing agent: the
\* id of the new agent, when no other id holds an instance of the class.
C9_SecurityReviewRouted ==
  ( /\ reg.op = "find_best_agent" /\ reg.query = SecurityQuery
    /\ \E i \in 1..Len(agent_metadata) : SecurityReviewEntry(i) )
  => /\ reg.ret_agent \notin {NoAgent, "aws_pricing"}
     /\ agent_instances[reg.ret_agent].cls = "SecurityReviewAgent"
     /\ \A i \in 1..Len(agent_metadata) :
           ( /\ SecurityReviewEntry(i)
             /\ \A a \in AgentIds \ {agent_metadata[i].id} :
                   agent_instances[a].cls # "SecurityReviewAgent" )
           => reg.ret_agent = agent_metadata[i].id

\* the query went to the security agent although the pricing agent, enabled,
\* constructed and registered first, scores 0.6 on it
C9_Witness ==
  /\ reg.op = "find_best_agent" /\ reg.query = SecurityQuery
  /\ reg.ret_agent = "security"
  /\ MetaIndex(agent_metadata, "aws_pricing") = 1
  /\ EntryScored(1)
  /\ EntryConfidence(1) = R(6, 10)
  /\ EntryWeighted(MetaIndex(agent_metadata, "security")) = R(9, 10)

\* ------------------------------------------- claims on the pricing agent

\* the failures of the tool tier before any tool data
BeforeToolData == {"list_tools", "tool_raise", "tool_timeout"}

\* C1: a call that is not answered from the cache, whose tool tier fails before
\* tool data arrives (listing the tools or the tool-enabled model call raises
\* or times out) and whose knowledge-only call answers, returns status
\* "success", mcp_available false and confidence "medium"; a call returns
\* status "error" only if the knowledge-only call was made and raised.
C1_KnowledgeTierAnswers ==
  /\ ( /\ pq.result.status # "none"
       /\ mcp_client
       /\ pq.fail \in BeforeToolData
       /\ pq.fallback_ok )
     => /\ pq.result.status = "success"
        /\ pq.result.cached = FALSE
        /\ pq.result.mcp_available = FALSE
        /\ pq.result.confidence = "medium"
  /\ pq.result.status = "error"
     => /\ ~pq.fallback_ok
        /\ ~mcp_client \/ pq.fail \in BeforeToolData

\* the tool-enabled model call timed out and the knowledge-only agent
\* answered, under the notice
C1_Witness ==
  /\ mcp_client
  /\ pq.fail = "tool_timeout"
  /\ pq.fallback_ok
  /\ pq.result.status = "success"
  /\ pq.result.confidence = "medium"
  /\ pq.result.response.notice = "fallback"

\* C4: a query that succeeded and is asked again at once, equal after lower
\* and strip, is answered from the cache (cached = true) and mcp_calls is not
\* incremented.
C4_RepeatIsCached ==
  ( /\ pq.prev_result.status = "success"
    /\ pq.result.status # "none"
    /\ CacheKey(pq.query) = CacheKey(pq.prev_query) )
  => /\ pq.result.status = "success"
     /\ pq.result.cached
     /\ performance_stats.mcp_calls = pq.mcp_calls_before

\* --------------------------------------------- claims on the orchestrator

\* C2: process_query never raises to its caller: whatever the router, its
\* model or the pricing agent do, the call returns a record that holds
\* content, agent_type and intent_analysis; when the call of the router
\* raised, the record is the structured apology of the agent-failure fallback.
C2_AlwaysARecord ==
  oq.calls > 0 =>
    /\ {"content", "agent_type", "intent_analysis"} \subseteq DOMAIN oq.response
    /\ oq.router = "raise" =>
         /\ oq.response.agent_type = "orchestrator_fallback"
         /\ oq.response.content.kind = "agent_failure"
         /\ oq.response.intent_analysis.intent = "error_fallback"
    /\ oq.router = "tool" => oq.response.agent_type = "router_enhanced"

\* the call of the router raised and the apology was returned and recorded
C2_Witness ==
  /\ oq.router = "raise"
  /\ oq.response.agent_type = "orchestrator_fallback"
  /\ messages # <<>>
  /\ messages[Len(messages)].agent_type = "orchestrator_fallback"

\* the pricing agent failed under the router, which answered all the same
C2_ToolErrorWitness ==
  /\ oq.router = "tool"
  /\ oq.response.agent_type = "router_enhanced"
  /\ oq.response.content.kind = "tool_exception"

\* C3: the context summary, the conversation history and the pricing
\* agent's architecture and cost state used for a request hold turns of the
\* request's own user only, never turns another user submitted.
C3_OwnContextOnly ==
  oq.calls > 0 =>
    /\ oq.summary_users \subseteq {oq.user_id}
    /\ oq.history_users \subseteq {oq.user_id}
    /\ oq.pricing_users \subseteq {oq.user_id}

\* C10: after any sequence of add_message calls, those of process_query
\* included, there are at most 20 messages, and they are the most recently
\* added ones in the order they were added.
C10_LastTwentyKept ==
  /\ Len(messages) <= MaxMessages
  /\ messages = Last(added, MaxMessages)

\* more than twenty messages were added, by process_query and directly, and
\* the oldest were dropped
C10_Witness ==
  /\ Len(added) > MaxMessages
  /\ Len(messages) = MaxMessages
  /\ oq.calls > 0
  /\ oq.adds > 0
  /\ messages[1] = added[Len(added) - MaxMessages + 1]

C18_NullWitness ==
  /\ oq.router = "tool"
  /\ reg.op = "get_agent" /\ reg.ret_instance = NoInstance
  /\ oq.response.content.kind = "tool_unavailable"


\* C25: at every RouterAgent.process_query call the delegate tools offered
\* to the model are exactly the agents registered and enabled in the registry
\* at that moment: an agent registered or enabled after the router was built
\* has a tool, and an agent disabled after the router was built cannot be
\* delegated to.
C25_ToolsFollowRegistry ==
  [][oq'.calls = oq.calls + 1 =>
       /\ tools = get_available_agents(agent_metadata)
       /\ oq'.router = "tool" => PricingAgentId \in get_available_agents(agent_metadata)
    ]_vars

\* C26: for agents that use the base scoring, analyze_intent never reports
\* the confidence "low": a selected agent has a score of at least 0.6 (medium
\* or high) and a result without a match is reported as medium; so the
\* uncertain_intent strategy of the orchestrator is never applied to the
\* response of a router call that completed normally.
C26_NeverLowConfidence ==
  (oq.calls > 0 /\ oq.router \in {"stream_error", "answer", "tool"}) =>
    /\ oq.response.intent_analysis.confidence \in {"medium", "high"}
    /\ oq.response.intent_analysis.intent = "specialized_agent" =>
         ~RLess(oq.response.intent_analysis.confidence_score, R(6, 10))
    /\ oq.response.intent_analysis.intent = "general" =>
         oq.response.intent_analysis.confidence = "medium"
    /\ ~oq.response.intent_analysis.fallback_applied

\* an agent was selected with the least score a match can have, 0.6,
\* reported as medium
C26_Witness ==
  /\ oq.calls > 0 /\ oq.router = "answer"
  /\ oq.response.intent_analysis.intent = "specialized_agent"
  /\ oq.response.intent_analysis.confidence_score = R(6, 10)
  /\ oq.response.intent_analysis.confidence = "medium"
  /\ ~oq.response.intent_analysis.fallback_applied

\* no agent matched: reported as medium, the strategy not applied
C26_GeneralWitness ==
  /\ oq.calls > 0 /\ oq.router = "answer"
  /\ oq.response.intent_analysis.intent = "general"
  /\ oq.response.intent_analysis.confidence = "medium"
  /\ ~oq.response.intent_analysis.fallback_applied
\* ------------------------------- claims on the state of the pricing agent

\* C11: summarization leaves a context of 2 entries or fewer as it is; when
\* it fires on a longer context (estimated tokens above the budget of 8000),
\* the context afterwards is one summary entry followed by the last two raw
\* turns, unchanged and in order: 3 entries at most, however many were merged.
C11_SummaryKeepsLastTwo ==
  [][conversation_context' # conversation_context =>
       LET appended == Append(conversation_context,
                              ContextEntry(pq'.query, pq'.result.response))
           n == Len(appended)
       IN  IF EstimatedTokens(appended) > max_context_length /\ n > 2
           THEN /\ Len(conversation_context') <= 3
                /\ conversation_context'[1].query_type = "summary"
                /\ SubSeq(conversation_context', 2, Len(conversation_context'))
                     = SubSeq(appended, n - 1, n)
                /\ \A i \in 2..Len(conversation_context') :
                      conversation_context'[i].query_type # "summary"
           ELSE conversation_context' = appended]_vars

\* the summary of the first turn stands before the second and the third
C11_Witness ==
  /\ Len(conversation_context) = 3
  /\ conversation_context[1].query_type = "summary"
  /\ conversation_context[3].query = pq.query
  /\ performance_stats.total_queries >= 3

\* C12: across any sequence of process_pricing_query calls (successes, cache
\* hits, fallbacks, errors, summarizations) the services of
\* current_architecture only grow: after each call they are a superset of
\* what they were before it.
C12_ServicesOnlyGrow ==
  [][current_architecture.services \subseteq current_architecture'.services]_vars

\* a later turn named other services than the first one, and both are kept
C12_Witness ==
  /\ {"EC2", "S3"} \subseteq current_architecture.services
  /\ Len(conversation_context) >= 2
  /\ "S3" \notin conversation_context[1].architecture_info.services
  /\ "EC2" \notin conversation_context[2].architecture_info.services

\* C13: baseline_costs is overwritten, not merged: after a successful
\* non-cached turn whose response yields any cost figure (a monthly total, an
\* annual total or a per-service amount) it is exactly that turn's figures;
\* after a turn that yields none it is unchanged.
C13_BaselineOverwritten ==
  [][(pq'.result.status = "success" /\ ~pq'.result.cached) =>
       LET cost_info == _extract_cost_estimates(pq'.result.response)
       IN  IF \/ cost_info.monthly_total # 0
              \/ cost_info.annual_total # 0
              \/ cost_info.service_breakdown # {}
           THEN baseline_costs' = cost_info
           ELSE baseline_costs' = baseline_costs]_vars

\* C15: on a fresh agent whose model calls succeed, after "Price an EC2
\* t3.small in us-east-1" and then "What if I switch to t3.medium?", the
\* second query is classified scenario or comparison, the services of
\* current_architecture hold "EC2" from the first turn, and the second turn
\* appended exactly one entry to scenario_history, the first turn none.
C15_SecondTurnIsScenario ==
  ( /\ performance_stats.total_queries = 2
    /\ pq.prev_query = Ec2PriceQuery /\ pq.prev_result.status = "success"
    /\ pq.query = SwitchQuery /\ pq.result.status = "success" )
  => /\ Len(conversation_context) = 2
     /\ conversation_context[2].query_type \in {"scenario", "comparison"}
     /\ "EC2" \in conversation_context[1].architecture_info.services
     /\ "EC2" \in current_architecture.services
     /\ "EC2" \in pq.result.current_architecture.services
     /\ pq.prev_result.scenarios_tracked = 0
     /\ Len(scenario_history) = 1
     /\ scenario_history[1].query = SwitchQuery

\* the two turns were made, and the second answer named no service
C15_Witness ==
  /\ performance_stats.total_queries = 2
  /\ pq.prev_query = Ec2PriceQuery /\ pq.prev_result.status = "success"
  /\ pq.query = SwitchQuery /\ pq.result.status = "success"
  /\ conversation_context[2].architecture_info.services = {}
  /\ Len(scenario_history) = 1

\* C14: scenario_history never holds more than 5 entries: after any sequence
\* of turns it is the last (at most 5) scenarios appended, in the order they
\* were appended, the oldest evicted first.
C14_LastFiveScenarios ==
  [][/\ Len(scenario_history') <= ScenarioLimit
     /\ scenario_history' # scenario_history =>
          scenario_history' =
            Last(Append(scenario_history,
                        [query |-> pq'.query,
                         cost_info |-> _extract_cost_estimates(pq'.result.response),
                         architecture_snapshot |-> current_architecture']),
                 ScenarioLimit)]_vars

\* six scenarios were appended and the first one is gone
C14_Witness ==
  /\ Len(scenario_history) = ScenarioLimit
  /\ performance_stats.total_queries = 6
  /\ \A i \in 1..ScenarioLimit : scenario_history[i].query = NumberedScenario(i + 1)
  /\ conversation_context[1].query = NumberedScenario(1)

\* C16: reset_conversation_context clears the whole conversation state: after
\* it the messages, the current architecture, the baseline costs and the
\* scenario history are empty, in the orchestrator and in the pricing agent.
C16_ResetClearsAll ==
  [][(messages # <<>> /\ messages' = <<>>) =>
       /\ last_agent_used' = NoAgentUsed
       /\ context_summary' = <<>>
       /\ conversation_context' = <<>>
       /\ current_architecture' = NoArchitecture
       /\ baseline_costs' = NoCosts
       /\ scenario_history' = <<>>]_vars

\* C17: get_agent(id) returns null when id is unknown and when the
\* construction of the agent raises; in both cases the instance cache is left
\* as it was: a failed construction is not cached, and a later get_agent(id)
\* constructs again.
C17_NullLeavesCache ==
  [][reg'.op = "get_agent" =>
       /\ (agent_instances[reg'.id] = NoInstance /\ agents[reg'.id] = NoClass)
            => reg'.ret_instance = NoInstance
       /\ reg'.ret_instance = NoInstance =>
            /\ agent_instances' = agent_instances
            /\ agents[reg'.id] # NoClass =>
                 get_agent(agent_instances', agents', reg'.id, TRUE).ret # NoInstance]_vars

\* the constructor of a registered class raised, and nothing was cached
C17_Witness ==
  /\ reg.op = "get_agent"
  /\ reg.ret_instance = NoInstance
  /\ agents[reg.id] # NoClass
  /\ agent_instances[reg.id] = NoInstance

\* get_agent of an id that was never registered returned null
C17_UnknownWitness ==
  /\ reg.op = "get_agent"
  /\ reg.ret_instance = NoInstance
  /\ agents[reg.id] = NoClass


\* ------------------------------------------------ claims on the score

\* some keyword or some phrase of the capability occurs in the text
Occurs(capability, text) ==
  ContainsAny(capability.keywords, text) \/ ContainsAny(capability.phrases, text)

\* C19: for every query and every capability list, get_confidence_score
\* returns a value in [0,1]; it returns 0 exactly when no keyword and no
\* phrase of any capability occurs in the lower-cased query, and at least 0.6
\* whenever a capability of priority >= 5 has a matching keyword or phrase.
C19_ScoreRange ==
  scoring.score # NoScore =>
    \E query_lower \in {Lower(scoring.query)} :
      /\ RLeq(RZero, scoring.score)
      /\ RLeq(scoring.score, ROne)
      /\ (scoring.score = RZero) <=>
           (\A i \in DOMAIN scoring.capabilities : ~Occurs(scoring.capabilities[i], query_lower))
      /\ (\E i \in DOMAIN scoring.capabilities :
            /\ scoring.capabilities[i].priority >= 5
            /\ Occurs(scoring.capabilities[i], query_lower))
           => RLeq(R(6, 10), scoring.score)

\* a priority-5 capability whose one keyword occurs once the query is
\* lower-cased: weighted 0.4, returned 0.6
C19_Witness ==
  /\ scoring.capabilities = <<CostCapability>>
  /\ scoring.query = TheCostIsHigh
  /\ scoring.score = R(6, 10)

\* nothing of either capability occurs: 0
C19_ZeroWitness ==
  /\ scoring.capabilities = <<CostCapability, SecurityReviewCapabilities[1]>>
  /\ scoring.query = HelloQuery
  /\ scoring.score = RZero

\* C20: an agent's confidence for a query is the maximum of its capabilities'
\* individual scores, clamped to 1, never their sum or average: adding a
\* capability never lowers the confidence, and a capability that scores lower
\* than the current maximum does not change it.
C20_MaxOfCapabilities ==
  scoring.score # NoScore =>
    \E query_lower \in {Lower(scoring.query)} :
    \E each \in {[i \in DOMAIN scoring.capabilities |->
                    RMin(CapabilityScore(scoring.capabilities[i], query_lower), ROne)]} :
      /\ \A i \in DOMAIN each : RLeq(each[i], scoring.score)
      /\ scoring.capabilities # << >> => \E i \in DOMAIN each : each[i] = scoring.score
      /\ scoring.capabilities = << >> => scoring.score = RZero
      /\ \A k \in DOMAIN each :
           \E before \in {get_confidence_score(SubSeq(scoring.capabilities, 1, k - 1), scoring.query)},
              after \in {get_confidence_score(SubSeq(scoring.capabilities, 1, k), scoring.query)} :
             /\ RLeq(before, after)
             /\ RLess(each[k], before) => after = before

\* two capabilities that both match, scoring 0.63 and 0.6: the agent reports 0.63
C20_Witness ==
  /\ scoring.capabilities = <<AuditCapabilities[1], CostCapability>>
  /\ scoring.query = AuditTheCost
  /\ CapabilityScore(CostCapability, Lower(AuditTheCost)) = R(6, 10)
  /\ scoring.score = R(63, 100)

\* ------------------------------------------- claims on registration

\* C21: register_agent_class(id, cls) whose throwaway construction or
\* metadata harvest raises does not raise: the class stays registered under
\* id (get_agent(id) still attempts construction), id has no metadata, so
\* that find_best_agent does not select it, and the entries of all other
\* agents are unchanged.
C21_FailedHarvestNotRoutable ==
  [][(reg'.op = "register_agent_class" /\ ~reg'.harvested) =>
       /\ agents'[reg'.id] # NoClass
       /\ get_agent(agent_instances', agents', reg'.id, TRUE).ret # NoInstance
       /\ MetaIndex(agent_metadata', reg'.id) = 0
       /\ \A q \in RegistryQueries :
            find_best_agent(agent_metadata', agents', agent_instances', q, {}, {}).best_agent # reg'.id
       /\ \A a \in AgentIds \ {reg'.id} :
            /\ agents'[a] = agents[a]
            /\ agent_instances'[a] = agent_instances[a]
            /\ MetaIndex(agent_metadata', a) = MetaIndex(agent_metadata, a)
            /\ MetaIndex(agent_metadata, a) # 0 =>
                 agent_metadata'[MetaIndex(agent_metadata', a)] = agent_metadata[MetaIndex(agent_metadata, a)]
    ]_vars

\* C22 as stated: find_best_agent returns, among the enabled, non-excluded,
\* constructed agents whose confidence is at least their own least threshold,
\* one whose weighted score is the greatest; it returns null if no agent
\* clears its own threshold, and only then.
C22_NullOnlyBelowThreshold ==
  reg.op = "find_best_agent" =>
    /\ reg.ret_agent = NoAgent <=> ~(\E i \in 1..Len(agent_metadata) : EntryPasses(i))
    /\ reg.ret_agent # NoAgent =>
         /\ EntryPasses(MetaIndex(agent_metadata, reg.ret_agent))
         /\ \A i \in 1..Len(agent_metadata) :
              EntryPasses(i) =>
                RLeq(EntryWeighted(i), EntryWeighted(MetaIndex(agent_metadata, reg.ret_agent)))

\* C22, amended: find_best_agent returns, among the enabled, non-excluded,
\* constructed agents whose confidence is at least their own least threshold,
\* one whose weighted score is the greatest; it returns null exactly when
\* none of these agents has a weighted score above zero.
C22_NullOnlyWithoutPositiveScore ==
  reg.op = "find_best_agent" =>
    /\ reg.ret_agent = NoAgent <=>
         ~(\E i \in 1..Len(agent_metadata) : EntryPasses(i) /\ RLess(RZero, EntryWeighted(i)))
    /\ reg.ret_agent # NoAgent =>
         /\ MetaIndex(agent_metadata, reg.ret_agent) # 0
         /\ EntryPasses(MetaIndex(agent_metadata, reg.ret_agent))
         /\ \A i \in 1..Len(agent_metadata) :
              EntryPasses(i) =>
                RLeq(EntryWeighted(i), EntryWeighted(MetaIndex(agent_metadata, reg.ret_agent)))

\* null was returned although the factory-made agent, scored, cleared its
\* threshold of 0.0 with a confidence of 0
C22_Witness ==
  /\ reg.op = "find_best_agent" /\ reg.ret_agent = NoAgent
  /\ \E i \in 1..Len(agent_metadata) :
        /\ agent_metadata[i].cls = "HelpDeskAgent"
        /\ EntryPasses(i)
        /\ EntryConfidence(i) = RZero

\* an agent was returned whose weighted score is the greatest of two unequal ones
C22_GreatestWitness ==
  /\ reg.op = "find_best_agent" /\ reg.ret_agent # NoAgent
  /\ \E i \in 1..Len(agent_metadata) :
        /\ EntryPasses(i)
        /\ RLess(RZero, EntryWeighted(i))
        /\ RLess(EntryWeighted(i), EntryWeighted(MetaIndex(agent_metadata, reg.ret_agent)))

\* ------------------------------------- claims on the cache and the tiers

\* a call of process_pricing_query that computed its result anew and succeeded
ComputedAnew ==
  /\ performance_stats'.total_queries = performance_stats.total_queries + 1
  /\ pq'.result.status = "success"
  /\ ~pq'.result.cached

\* C23: the query cache holds at most 10 entries and evicts in insertion
\* order: when it holds 10 entries and a new query succeeds, the entry inserted
\* first is removed and the new result is stored, so that the result computed
\* last is always in the cache.
C23_InsertionOrderEviction ==
  [][ComputedAnew =>
       \E stored \in {[key |-> QueryFacts[pq'.query].key, result |-> pq'.result]} :
         /\ Len(query_cache') <= CacheLimit
         /\ Len(query_cache) = CacheLimit => query_cache' = Append(Tail(query_cache), stored)
         /\ \E i \in 1..Len(query_cache') : query_cache'[i] = stored
    ]_vars

\* a call of process_pricing_query whose knowledge-only call raised
EndsInError ==
  /\ performance_stats'.total_queries = performance_stats.total_queries + 1
  /\ \/ pq'.result.status = "error"
     \/ /\ UsesFallback(mcp_client, pq'.fail) /\ ~pq'.fallback_ok
        /\ pq'.result.status # "abandoned"

\* C24: the query cache is written only after a call fully succeeds: a call
\* that ends in the error tier, or that is abandoned before completing, adds
\* and changes no cache entry, and on the error path the conversation
\* context, current_architecture, baseline_costs and scenario_history are
\* unchanged too; of the counters only total_queries has advanced.
C24_CacheWrittenOnSuccessOnly ==
  [][/\ query_cache' # query_cache =>
          /\ pq'.result.status = "success"
          /\ ~pq'.result.cached
          /\ query_cache' = Append(query_cache, [key |-> QueryFacts[pq'.query].key, result |-> pq'.result])
     /\ pq'.result.status = "abandoned" /\ pq' # pq => query_cache' = query_cache
     /\ EndsInError =>
          /\ pq'.result.status = "error"
          /\ query_cache' = query_cache
          /\ conversation_context' = conversation_context
          /\ current_architecture' = current_architecture
          /\ baseline_costs' = baseline_costs
          /\ scenario_history' = scenario_history
          /\ performance_stats' = [performance_stats EXCEPT !.total_queries = @ + 1]
    ]_vars

\* a call ended in the error tier after one that succeeded and was stored
C24_Witness ==
  /\ pq.result.status = "error"
  /\ pq.prev_result.status = "success"
  /\ performance_stats.total_queries = 2
  /\ Len(query_cache) = 1
  /\ query_cache[1].result = pq.prev_result
  /\ Len(conversation_context) = 1

\* a call was abandoned after one that succeeded and was stored
C24_AbandonedWitness ==
  /\ pq.result.status = "abandoned"
  /\ pq.prev_result.status = "success"
  /\ Len(query_cache) = 1

\* C27: a request leaves no concurrent activity behind: whenever
\* process_pricing_query returns (tool-tier success, fallback after a tool
\* timeout, fallback after any other tool error, or error), the monitoring
\* task and the worker started for the tool-enabled model call have been
\* cancelled or have finished.
C27_NothingLeftBehind ==
  pq.result.status \in {"success", "error"} =>
    /\ monitor_tasks = 0
    /\ worker_threads = 0

\* ------------------------------------ claim C29

\* the response text starts with the warning sign of the fallback banner
StartsWithBanner(response) == response.notice = "fallback" \/ response.text.warned

\* C29: every response of the knowledge-only tier starts with the fallback
\* banner, whether the tier ran because the tool tier raised or because
\* there is no tool connection: the banner is prepended whenever the model's
\* text does not start with it.
C29_FallbackBannerAlways ==
  [][(ComputedAnew /\ UsesFallback(mcp_client, pq'.fail))
       => StartsWithBanner(pq'.result.response)]_vars

\* ------------------------------------ claim C28

\* C28: however the statements of concurrent first get_agent(id) calls
\* interleave, every call returns (the instance, or None after a failed
\* constructor or for an id without a class), and once no call is in
\* progress an id for which a call returned an instance has one instance in
\* agent_instances; a call that starts then returns that instance and leaves
\* it the cached one.
C28_OneCachedInstance ==
  /\ \A c \in Callers :
       get_calls.by[c].pc \in {"idle", "lookup", "construct", "store", "done"}
  /\ Quiescent(get_calls.by, {}) =>
       \A c \in Callers :
         (get_calls.by[c].pc = "done" /\ get_calls.by[c].ret # NoInstance)
           => agent_instances[get_calls.by[c].id] # NoInstance
  /\ \A c \in Callers :
       (/\ get_calls.by[c].pc = "done"
        /\ get_calls.by[c].quiet
        /\ get_calls.by[c].seen # NoInstance)
         => /\ get_calls.by[c].ret = get_calls.by[c].seen
            /\ agent_instances[get_calls.by[c].id] = get_calls.by[c].seen

\* two first calls raced and both constructed; a call made after both had
\* completed returned the cached instance
C28_Witness ==
  /\ get_calls.constructed = 2
  /\ get_calls.by[1].pc = "done"
  /\ get_calls.by[1].id = "aws_pricing"
  /\ get_calls.by[1].quiet
  /\ get_calls.by[1].seen # NoInstance
  /\ get_calls.by[2].pc = "done"
  /\ get_calls.by[2].id = "aws_pricing"
  /\ get_calls.by[2].ret # NoInstance

\* the two racing first calls returned different instances
C28_RaceWitness ==
  /\ Quiescent(get_calls.by, {})
  /\ get_calls.by[1].ret # NoInstance
  /\ get_calls.by[2].ret # NoInstance
  /\ get_calls.by[1].ret # get_calls.by[2].ret

\* ------------------------------------ claim C30

\* C30: the tiers hold for an agent built from AIFirstAgentTemplate: when
\* the model call with the tool attached raises, the knowledge-only agent is
\* called next, and the call returns status "error" only after that one has
\* failed too.
C30_TemplateTriesKnowledgeOnly ==
  (/\ template.call.invoked # <<>>
   /\ template.call.invoked[1] = "tools"
   /\ template.call.fail = "stream")
    => /\ Len(template.call.invoked) >= 2
       /\ template.call.invoked[2] = "fallback"
       /\ template.call.result.status = "error" => template.call.invoked[Len(template.call.invoked)] = "fallback"

\* ------------------------------------ claim C31

\* C31: a turn appends to scenario_history only if the first-match
\* classification calls its query a comparison, a scenario or a
\* modification; a successful turn classified optimization, pricing or
\* general leaves scenario_history unchanged.
C31_ScenarioOnlyForClassified ==
  [][(ComputedAnew /\ scenario_history' # scenario_history)
       => QueryFacts[pq'.query].query_type \in {"comparison", "scenario", "modification"}]_vars

\* ------------------------------------ claim C32

\* C32: the pricing agent's turn log is bounded to the most recent 10
\* entries: after any sequence of successful process_pricing_query calls
\* conversation_context holds at most 10 entries, also when the turns are
\* too short to exceed the token budget.
C32_TurnLogAtMostTen == Len(conversation_context) <= 10

\* ------------------------------------ claim C33

\* C33: current_architecture is merged additively for every attribute: a
\* region or an instance type recorded in an earlier turn is still in
\* current_architecture after any later turn.
C33_EveryAttributeGrows ==
  [][/\ current_architecture.regions \subseteq current_architecture'.regions
     /\ current_architecture.instance_types \subseteq current_architecture'.instance_types]_vars

\* ------------------------------------ claim C34

\* C34: the intent classification of a query depends only on the query's
\* text and on the registry: whatever the earlier turns of the orchestrator
\* were, the agent selected for a query has the score it has for that query's
\* text.
C34_IntentFromQueryAlone ==
  (oq.calls >= 1 /\ oq.response.intent_analysis.intent = "specialized_agent")
    => \E selected \in {agent_instances[oq.response.intent_analysis.selected_agent]} :
         /\ selected # NoInstance
         /\ oq.response.intent_analysis.confidence_score = ConfidenceTable[selected.cls][oq.query]

\* ------------------------------------ claim C35

\* C35: for the first query of a fresh or just reset orchestrator (no
\* message in its context) the query handed to RouterAgent.process_query is
\* the raw query, without a [CONTEXT: ...] block.
C35_FirstQueryUnchanged ==
  [][(oq'.calls = oq.calls + 1 /\ messages = <<>>)
       => _enhance_query_with_context(oq'.query, oq'.context_summary) = oq'.query]_vars

\* ------------------------------------ claim C36

\* C36: after a process_query whose intent analysis selected the pricing
\* agent, last_agent_used is 'aws_pricing_agent'; it is 'router_agent' only
\* when no pricing agent was selected.
C36_PricingAgentRecorded ==
  [][(oq'.calls = oq.calls + 1 /\ oq'.response.agent_type = "router_enhanced")
       => /\ oq'.response.intent_analysis.selected_agent = PricingAgentId
               => last_agent_used' = PricingAgentName
          /\ last_agent_used' = RouterAgentName
               => oq'.response.intent_analysis.selected_agent # PricingAgentId]_vars

\* ------------------------------------ claim C37

\* C37: when the orchestrator's message list exceeds its cap, the
\* context_overflow strategy runs: the messages are truncated to the most
\* recent 10 and the summary is recomputed before routing is retried once.
C37_OverflowTruncatesToTen ==
  [][(Len(messages) = MaxMessages /\ messages' # messages)
       => /\ Len(messages') <= RelevantMessages
          /\ context_summary' = get_context_summary(messages', last_agent_used')]_vars

\* ------------------------------------ claims C38 and C39

\* the query contains one of the fixed AWS keywords
HasAwsKeyword(query) ==
  \E i \in 1..Len(AwsKeywords) : Contains(AwsKeywords[i], Lower(query))

\* C38: the uncertain_intent strategy sets hint fields only: on a
\* low-confidence response it sets fallback_suggestion to 'aws_pricing' if
\* the query contains an AWS keyword and to 'clarification_needed'
\* otherwise, sets fallback_applied, and leaves content, agent_type and the
\* selected target unchanged; a response that is not low is returned as it
\* is.
C38_HintFieldsOnly ==
  hint.stage = "routed" =>
    /\ hint.returned.content = hint.routed.content
    /\ hint.returned.agent_type = hint.routed.agent_type
    /\ hint.returned.intent_analysis.selected_agent = hint.routed.intent_analysis.selected_agent
    /\ hint.returned.intent_analysis.intent = hint.routed.intent_analysis.intent
    /\ hint.returned.intent_analysis.confidence = hint.routed.intent_analysis.confidence
    /\ hint.returned.intent_analysis.confidence_score = hint.routed.intent_analysis.confidence_score
    /\ IF hint.routed.intent_analysis.confidence = "low"
       THEN /\ hint.returned.intent_analysis.fallback_applied
            /\ hint.returned.intent_analysis.fallback_suggestion =
                 IF HasAwsKeyword(hint.query) THEN "aws_pricing" ELSE "clarification_needed"
       ELSE hint.returned = hint.routed

\* a low-confidence response for a query with an AWS keyword got the hint
\* and kept its target, which is not the pricing agent
C38_Witness ==
  /\ hint.stage = "routed"
  /\ hint.routed.intent_analysis.confidence = "low"
  /\ hint.returned.intent_analysis.fallback_suggestion = "aws_pricing"
  /\ hint.returned.intent_analysis.selected_agent = "security"

\* a low-confidence response for a query without one asks for clarification
C38_ClarificationWitness ==
  /\ hint.stage = "routed"
  /\ hint.routed.intent_analysis.confidence = "low"
  /\ hint.returned.intent_analysis.fallback_suggestion = "clarification_needed"

\* C39: analyze_intent buckets the selected agent's score as high when it
\* is at least 0.7, medium when it is at least 0.4 and below 0.7, low
\* otherwise; when find_best_agent returns null the target is the general
\* handler with confidence medium and score 0.
C39_Buckets ==
  hint.stage \in {"analysed", "routed"} =>
    \E ia \in {hint.routed.intent_analysis} :
      IF hint.best_agent # NoAgent
      THEN /\ ia.selected_agent = hint.best_agent
           /\ ia.confidence_score = hint.score
           /\ (ia.confidence = "high") = RLeq(R(7, 10), hint.score)
           /\ (ia.confidence = "medium") = (RLeq(R(4, 10), hint.score) /\ RLess(hint.score, R(7, 10)))
           /\ (ia.confidence = "low") = RLess(hint.score, R(4, 10))
      ELSE /\ ia.selected_agent = "general_response"
           /\ ia.intent = "general"
           /\ ia.confidence = "medium"
           /\ ia.confidence_score = RZero

\* scores on the limits: 0.7 is high, 0.4 is medium
C39_Witness ==
  /\ hint.stage = "analysed"
  /\ hint.score = R(7, 10)
  /\ hint.routed.intent_analysis.confidence = "high"

C39_MediumWitness ==
  /\ hint.stage = "analysed"
  /\ hint.score = R(4, 10)
  /\ hint.routed.intent_analysis.confidence = "medium"

C39_GeneralWitness ==
  /\ hint.stage = "analysed"
  /\ hint.best_agent = NoAgent
  /\ hint.routed.intent_analysis.confidence = "medium"

\* ------------------------------------ claim C40

\* C40: in every reachable state of a pricing agent the counters are
\* consistent: cache_hits <= total_queries, mcp_calls <= total_queries -
\* cache_hits, the cache holds at most 10 entries, and no counter ever
\* decreases.
C40_CountersConsistent ==
  /\ [](/\ performance_stats.cache_hits <= performance_stats.total_queries
        /\ performance_stats.mcp_calls
             <= performance_stats.total_queries - performance_stats.cache_hits
        /\ Len(query_cache) <= 10)
  /\ [][/\ performance_stats'.total_queries >= performance_stats.total_queries
        /\ performance_stats'.cache_hits >= performance_stats.cache_hits
        /\ performance_stats'.mcp_calls >= performance_stats.mcp_calls]_vars

\* a long run: the cache is full, later queries were computed and not
\* stored, and some were answered from the cache
C40_Witness ==
  /\ Len(query_cache) = 10
  /\ performance_stats.total_queries >= 12
  /\ performance_stats.cache_hits >= 1
  /\ performance_stats.mcp_calls = performance_stats.total_queries - performance_stats.cache_hits
  /\ performance_stats.mcp_calls = 11

\* calls that ended in the knowledge-only tier or in the error tier: fewer
\* tool calls than computed queries
C40_TiersWitness ==
  /\ performance_stats.total_queries = 3
  /\ performance_stats.cache_hits = 1
  /\ performance_stats.mcp_calls = 1
  /\ pq.result.status = "error"
====
